---- MODULE Spec2Model ----
(***************************************************************************)
(* A model of the seeder: the dependency orderer (utils.ts                 *)
(* topologicalSort), the seeding orchestrator and row synthesizer          *)
(* (runSeeder, seedTable, buildRowValues and their helpers), the value     *)
(* producer (generateValue) and the command line's transaction handling    *)
(* (main).                                                                 *)
(*                                                                         *)
(* JavaScript Maps and Sets iterate in insertion order, so they are        *)
(* modelled as sequences: a Map is a sequence of [key, val] entries, a Set *)
(* a sequence without repetition.                                          *)
(***************************************************************************)
EXTENDS Integers, Sequences, FiniteSets, TLC

VARIABLES
    sortIn,         \* topologicalSort's arguments: [nodes, edges]
    sortOut,        \* topologicalSort's outcome: [called, ok, result, remaining]
    pc,             \* where main() stands
    db,             \* the name of the catalog the client is connected to
    rawConfig,      \* the merged configuration (cli.ts lines 53-59)
    config,         \* the configuration after the command line's checks
    storage,        \* the rows the session sees
    durable,        \* the rows that are committed
    txLog,          \* the transaction statements issued, in order
    exitCode,       \* process.exitCode
    error,          \* the message of the error raised, "" when none
    summary,        \* runSeeder's summary
    fkPoolCache,    \* runSeeder's fkPoolCache
    schemaIdx,      \* position in schemas of the schema being processed
    schemaEnums,          \* the enum Map of the schema being processed
    orderedTables,  \* the schema's tables in seeding order
    tableIdx,       \* position in orderedTables of the table being seeded
    cur,            \* seedTable's locals for the table being seeded
    events,         \* history: the pool loads and inserts, in order
    first,          \* history: the outcome of the run before a re-run
    now,            \* the current time, in hours since 2024-01-01T00:00Z
    genIn,          \* generateValue's arguments: [column, enums, override]
    genOut,         \* generateValue's outcome: [called, error, value]
    rowLog          \* history: the outcomes of buildRowValues, in order

sortVars == <<sortIn, sortOut>>

runVars == <<pc, db, rawConfig, config, storage, durable, txLog, exitCode, error, summary,
             fkPoolCache, schemaIdx, schemaEnums, orderedTables, tableIdx, cur, events, first, now, rowLog>>

vars == <<sortIn, sortOut, genIn, genOut, pc, db, rawConfig, config, storage, durable, txLog, exitCode, error,
          summary, fkPoolCache, schemaIdx, schemaEnums, orderedTables, tableIdx, cur, events, first, now, rowLog>>

-----------------------------------------------------------------------------
(* Sequences, ordered Maps and ordered Sets                                *)

Range(s) == {s[i] : i \in 1..Len(s)}

SeqHas(s, x) == \E i \in 1..Len(s) : s[i] = x

\* Array.prototype.indexOf, 0-based; -1 when absent
IndexOf(s, x) ==
    IF SeqHas(s, x) THEN (CHOOSE i \in 1..Len(s) : s[i] = x /\ \A j \in 1..(i-1) : s[j] # x) - 1
    ELSE -1

NoDup(s) == \A i, j \in 1..Len(s) : i # j => s[i] # s[j]

\* Set.prototype.add on an insertion-ordered Set
SetAdd(s, x) == IF SeqHas(s, x) THEN s ELSE Append(s, x)

MapHas(m, k) == \E i \in 1..Len(m) : m[i].key = k

MapGet(m, k) == m[CHOOSE i \in 1..Len(m) : m[i].key = k].val

\* Map.prototype.set: an existing key keeps its place
MapSet(m, k, v) ==
    IF MapHas(m, k)
    THEN [i \in 1..Len(m) |-> IF m[i].key = k THEN [key |-> k, val |-> v] ELSE m[i]]
    ELSE Append(m, [key |-> k, val |-> v])

-----------------------------------------------------------------------------
(* utils.ts: topologicalSort                                               *)

\* lines 37-40: every node starts with in-degree 0
RECURSIVE InitInDegree(_, _, _)
InitInDegree(nodes, i, inDegree) ==
    IF i > Len(nodes) THEN inDegree
    ELSE InitInDegree(nodes, i + 1, MapSet(inDegree, nodes[i], 0))

\* Mutant of CountTargets: a target that is no node ends the count (break for
\* continue at line 44).
RECURSIVE CountTargetsBreak(_, _, _)
CountTargetsBreak(tos, j, inDegree) ==
    IF j > Len(tos) THEN inDegree
    ELSE IF ~MapHas(inDegree, tos[j]) THEN inDegree
    ELSE CountTargetsBreak(tos, j + 1, MapSet(inDegree, tos[j], MapGet(inDegree, tos[j]) + 1))

\* lines 43-46: one edge set's targets each gain one
RECURSIVE CountTargets(_, _, _)
CountTargets(tos, j, inDegree) ==
    IF j > Len(tos) THEN inDegree
    ELSE IF ~MapHas(inDegree, tos[j]) THEN CountTargets(tos, j + 1, inDegree)
    ELSE CountTargets(tos, j + 1, MapSet(inDegree, tos[j], MapGet(inDegree, tos[j]) + 1))

\* lines 41-47: edges whose source or target is no node are skipped
RECURSIVE CountInDegree(_, _, _)
CountInDegree(edges, i, inDegree) ==
    IF i > Len(edges) THEN inDegree
    ELSE IF ~MapHas(inDegree, edges[i].key) THEN CountInDegree(edges, i + 1, inDegree)
    ELSE CountInDegree(edges, i + 1, CountTargets(edges[i].val, 1, inDegree))

\* lines 49-52: the nodes of in-degree 0, in the Map's order
RECURSIVE InitialQueue(_, _)
InitialQueue(inDegree, i) ==
    IF i > Len(inDegree) THEN <<>>
    ELSE IF inDegree[i].val = 0
         THEN <<inDegree[i].key>> \o InitialQueue(inDegree, i + 1)
         ELSE InitialQueue(inDegree, i + 1)

\* lines 61-66: each target of the placed node loses one; at 0 it is queued
RECURSIVE Relax(_, _, _)
Relax(tos, j, acc) ==
    IF j > Len(tos) THEN acc
    ELSE IF ~MapHas(acc.inDegree, tos[j]) THEN Relax(tos, j + 1, acc)
    ELSE LET next == MapGet(acc.inDegree, tos[j]) - 1
         IN  Relax(tos, j + 1,
                   [inDegree |-> MapSet(acc.inDegree, tos[j], next),
                    queue    |-> IF next = 0 THEN Append(acc.queue, tos[j]) ELSE acc.queue])

\* lines 54-67: the queue loop; an empty name ends it (line 57)
RECURSIVE KahnLoop(_, _, _, _)
KahnLoop(queue, result, inDegree, edges) ==
    IF Len(queue) = 0 THEN result
    ELSE LET node == Head(queue)
             rest == Tail(queue)
         IN  IF node = "" THEN result
             ELSE IF ~MapHas(edges, node)
                  THEN KahnLoop(rest, Append(result, node), inDegree, edges)
                  ELSE LET acc == Relax(MapGet(edges, node), 1,
                                        [inDegree |-> inDegree, queue |-> rest])
                       IN  KahnLoop(acc.queue, Append(result, node), acc.inDegree, edges)

\* Mutant of SortRemaining: every node is reported.
SortRemainingAll(nodes, result) == nodes

\* line 70: the nodes that were not placed, in the order of the input
SortRemaining(nodes, result) == SelectSeq(nodes, LAMBDA n : ~SeqHas(result, n))

\* lines 36-77: the order, or the error and the tables it names
topologicalSort(nodes, edges) ==
    LET inDegree == CountInDegree(edges, 1, InitInDegree(nodes, 1, <<>>))
        result   == KahnLoop(InitialQueue(inDegree, 1), <<>>, inDegree, edges)
    IN  IF Len(result) # Len(nodes)
        THEN [ok |-> FALSE, result |-> <<>>, remaining |-> SortRemaining(nodes, result)]
        ELSE [ok |-> TRUE, result |-> result, remaining |-> <<>>]

\* index.ts lines 61-65: edges.get(from) ?? new Set; set.add(to); edges.set(from, set)
AddEdge(edges, from, to) ==
    MapSet(edges, from, SetAdd(IF MapHas(edges, from) THEN MapGet(edges, from) ELSE <<>>, to))

-----------------------------------------------------------------------------
(* Values.  A JavaScript value is <<kind, text>>: text is what String(),   *)
(* toISOString(), toString("hex") or JSON.stringify() print for it.        *)

NULL == <<"null", "">>

Num(i) == <<"number", ToString(i)>>

Str(s) == <<"string", s>>

Bool(b) == <<"boolean", IF b THEN "true" ELSE "false">>

\* valueToKey's null
NoKeyPart == <<"none">>

\* Mutant of valueToKey: null has a key like any other value.
ValueToKeyOfAny(value) == <<"key", value[2]>>

\* index.ts lines 458-474: null has no key; a primitive prints as String(value),
\* a Date as its ISO string, a Buffer as hex, anything else as JSON
valueToKey(value) ==
    IF value[1] = "null" THEN NoKeyPart
    ELSE <<"key", value[2]>>

\* a constraint's key when one of its values is null
NoKey == <<>>

\* index.ts lines 436-447: JSON.stringify of the values' keys, null as soon as
\* one value has none; indices are 0-based positions in the row
RECURSIVE buildUniqueKeyFromRow(_, _)
buildUniqueKeyFromRow(values, indices) ==
    IF Len(indices) = 0 THEN <<"[">>
    ELSE LET key == valueToKey(values[Head(indices) + 1])
             rest == buildUniqueKeyFromRow(values, Tail(indices))
         IN  IF key = NoKeyPart \/ rest = NoKey THEN NoKey
             ELSE <<"[", key[2]>> \o Tail(rest)

\* index.ts lines 423-434: the same over a storage row (column name -> value)
RECURSIVE buildUniqueKeyFromColumns(_, _)
buildUniqueKeyFromColumns(row, columns) ==
    IF Len(columns) = 0 THEN <<"[">>
    ELSE LET key == valueToKey(row[Head(columns)])
             rest == buildUniqueKeyFromColumns(row, Tail(columns))
         IN  IF key = NoKeyPart \/ rest = NoKey THEN NoKey
             ELSE <<"[", key[2]>> \o Tail(rest)

-----------------------------------------------------------------------------
(* types.ts: the schema model                                              *)

\* ColumnInfo; columnDefault "" is null, maxLength 0 is null, a precision or
\* scale of -1 is null
Col(name, dataType, udtName, isNullable) ==
    [name |-> name, dataType |-> dataType, udtName |-> udtName, isNullable |-> isNullable,
     columnDefault |-> "", isIdentity |-> FALSE, isGenerated |-> FALSE,
     maxLength |-> 0, numericPrecision |-> -1, numericScale |-> -1]

IntCol(name, isNullable) == Col(name, "integer", "int4", isNullable)

TextCol(name, isNullable) == Col(name, "text", "text", isNullable)

\* ForeignKeyInfo
Fk(columns, refSchema, refTable, refColumns) ==
    [columns |-> columns, refSchema |-> refSchema, refTable |-> refTable,
     refColumns |-> refColumns]

\* UniqueConstraintInfo
Uq(name, columns) == [name |-> name, columns |-> columns]

\* TableInfo
Table(schema, name, columns, pkColumns, fks, uniqueConstraints) ==
    [schema |-> schema, name |-> name, columns |-> columns, pkColumns |-> pkColumns,
     fks |-> fks, uniqueConstraints |-> uniqueConstraints]

\* Config["overrides"][key]: faker "" and values <<>> are absent
Override(faker, values) == [defined |-> TRUE, faker |-> faker, values |-> values]

\* undefined: no override applies
NoOverride == [defined |-> FALSE, faker |-> "", values |-> <<>>]

ColumnNames(columns) == [i \in 1..Len(columns) |-> columns[i].name]

-----------------------------------------------------------------------------
(* generate.ts: the value producer.  A random draw is a position in the    *)
(* sequence of values the call can return; each generator is given         *)
(* GenWidth of them.  Instants are counted in hours since                  *)
(* 2024-01-01T00:00Z and stay inside January 2024.                         *)

GenWidth == 2

\* the time at which a run starts
StartTime == 100

\* the time at which a second run may start
LaterTime == 130

Draws(kind, stem) == [i \in 1..GenWidth |-> <<kind, stem \o ToString(i)>>]

\* String(n).padStart(2, '0')
Pad2(n) == IF n < 10 THEN "0" \o ToString(n) ELSE ToString(n)

\* Date.prototype.toISOString
toISOString(date) ==
    "2024-01-" \o Pad2(1 + date \div 24) \o "T" \o Pad2(date % 24) \o ":00:00.000Z"

\* lines 52-57
formatTime(date) == Pad2(date % 24) \o ":00:00"

\* faker.date.past: the reference date defaults to the current time; the
\* i-th draw lies i days before it
DatePast(i) == now - 24 * i

\* faker.date.recent: the i-th draw lies i hours before the current time
DateRecent(i) == now - i

\* the library's paths that resolve to a function, and those that resolve to
\* a module object
FakerFunctions == {"internet.email", "lorem.word"}

FakerModules == {"internet", "lorem"}

\* lines 204-214: what the dotted path resolves to
\* Mutant of resolveFakerPath: every path resolves to a function.
ResolveAnyPath(path) == "function"

resolveFakerPath(path) ==
    IF path \in FakerFunctions THEN "function"
    ELSE IF path \in FakerModules THEN "object"
    ELSE "undefined"

\* lines 46-50
clampString(value, maxLength) ==
    IF maxLength = 0 THEN value
    ELSE IF Len(value[2]) <= maxLength THEN value
    ELSE <<value[1], SubSeq(value[2], 1, IF maxLength > 1 THEN maxLength ELSE 1)>>

\* lines 9-26 and 36-44: the first pattern of NAME_HINTS that the lower-cased
\* column name matches, "" when none does (the names the catalogs use)
generateFromHints(columnName) ==
    CASE columnName \in {"email", "contact_email"} -> "email"
      [] columnName \in {"first_name"} -> "firstName"
      [] columnName \in {"name", "full_name", "username"} -> "fullName"
      [] columnName \in {"phone"} -> "phone"
      [] columnName \in {"city"} -> "city"
      [] columnName \in {"org_id", "company"} -> "company"
      [] columnName \in {"title"} -> "sentence"
      [] columnName \in {"notes", "bio"} -> "paragraph"
      [] columnName \in {"url"} -> "url"
      [] columnName \in {"slug"} -> "slug"
      [] OTHER -> ""

\* lines 59-96
udtToDataType(udtName) ==
    CASE udtName = "int2" -> "smallint"
      [] udtName = "int4" -> "integer"
      [] udtName = "int8" -> "bigint"
      [] udtName = "varchar" -> "character varying"
      [] udtName = "bool" -> "boolean"
      [] udtName = "float4" -> "real"
      [] udtName = "float8" -> "double precision"
      [] udtName = "timestamptz" -> "timestamp with time zone"
      [] OTHER -> udtName

\* String.prototype.toLowerCase on the type names information_schema reports
Lower(s) ==
    CASE s = "ARRAY" -> "array"
      [] s = "USER-DEFINED" -> "user-defined"
      [] OTHER -> s

\* dataType.includes(word), for the words lines 140-197 look for
Includes(dataType, word) ==
    word \in (CASE dataType \in {"integer", "bigint", "smallint", "numeric", "decimal",
                                "real", "boolean", "uuid", "text", "date", "json",
                                "bytea", "inet", "cidr", "timestamp"} -> {dataType}
                [] dataType = "double precision" -> {"double"}
                [] dataType \in {"character varying", "character"} -> {"character"}
                [] dataType \in {"timestamp without time zone", "timestamp with time zone"}
                       -> {"timestamp", "time"}
                [] dataType \in {"time without time zone", "time with time zone", "time"}
                       -> {"time"}
                [] dataType = "jsonb" -> {"json"}
                [] dataType = "daterange" -> {"date"}
                [] OTHER -> {})

\* udtName.startsWith("_") and udtName.slice(1), "" when it does not
ArrayBase(udtName) ==
    CASE udtName = "_int4" -> "int4"
      [] udtName = "_text" -> "text"
      [] udtName = "_bool" -> "bool"
      [] OTHER -> ""

\* Math.pow(10, n)
RECURSIVE Pow10(_)
Pow10(n) == IF n <= 0 THEN 1 ELSE 10 * Pow10(n - 1)

\* lines 162-164: the decimal generator's upper bound
DecimalMax(column) ==
    LET precision == IF column.numericPrecision = -1 THEN 8 ELSE column.numericPrecision
        scale     == IF column.numericScale = -1 THEN 2 ELSE column.numericScale
        digits    == IF precision - scale > 1 THEN precision - scale ELSE 1
    IN  Pow10(digits) - 1

\* lines 133-202: the values the type-driven policy can return for a column
\* that is no array
ScalarValues(column, dataType, enums) ==
    LET possible ==
            IF Len(enums) = 0 THEN <<>>
            ELSE IF MapHas(enums, column.udtName) THEN MapGet(enums, column.udtName)
            ELSE IF MapHas(enums, "public." \o column.udtName)
                 THEN MapGet(enums, "public." \o column.udtName)
            ELSE <<>>
        hint == generateFromHints(Lower(column.name))
        clamped(stem) == [i \in 1..GenWidth |->
                             clampString(Draws("string", stem)[i], column.maxLength)]
    IN  IF Len(possible) > 0 THEN [i \in 1..Len(possible) |-> Str(possible[i])]
        ELSE IF Includes(dataType, "inet") \/ Includes(dataType, "cidr")
             THEN Draws("string", "10.0.0.")
        ELSE IF hint # "" THEN clamped(hint)
        ELSE IF Includes(dataType, "uuid") THEN Draws("string", "uuid-")
        ELSE IF Includes(dataType, "boolean") THEN <<Bool(TRUE), Bool(FALSE)>>
        ELSE IF Includes(dataType, "integer") \/ Includes(dataType, "bigint")
                \/ Includes(dataType, "smallint")
             THEN [i \in 1..GenWidth |-> Num(i)]
        ELSE IF Includes(dataType, "numeric") \/ Includes(dataType, "decimal")
             THEN <<Num(0), Num(DecimalMax(column))>>
        ELSE IF Includes(dataType, "real") \/ Includes(dataType, "double")
             THEN [i \in 1..GenWidth |-> Num(i - 1)]
        ELSE IF Includes(dataType, "timestamp")
             THEN [i \in 1..GenWidth |-> Str(toISOString(DatePast(i)))]
        ELSE IF Includes(dataType, "date")
             THEN [i \in 1..GenWidth |-> Str(SubSeq(toISOString(DatePast(i)), 1, 10))]
        ELSE IF Includes(dataType, "time")
             THEN [i \in 1..GenWidth |-> Str(formatTime(DateRecent(i)))]
        ELSE IF Includes(dataType, "json")
             THEN [i \in 1..GenWidth |->
                      <<"object", "{\"id\":" \o ToString(i) \o ",\"createdAt\":\""
                                  \o toISOString(DateRecent(i)) \o "\"}">>]
        ELSE IF Includes(dataType, "bytea") THEN Draws("buffer", "6162")
        ELSE IF Includes(dataType, "character") \/ Includes(dataType, "text")
             THEN clamped("lorem")
        ELSE clamped("word")

\* lines 118-131: an array column holds 1 to 3 values of its element type;
\* a draw is the sequence of the elements' draws
ArrayValues(column, baseName, enums) ==
    LET elems == ScalarValues([column EXCEPT !.dataType = udtToDataType(baseName),
                                             !.udtName = baseName],
                              Lower(udtToDataType(baseName)), enums)
    IN  [d \in UNION {[1..n -> 1..Len(elems)] : n \in 1..3} |->
            <<"array", [k \in 1..Len(d) |-> elems[d[k]][2]]>>]

\* lines 98-202: [error, values]: the error raised, or the values one call
\* can return, by draw
generateValue(column, enums, override) ==
    IF override.defined /\ Len(override.values) > 0
    THEN [error |-> "", values |-> override.values]
    ELSE IF override.defined /\ override.faker # ""
    THEN IF resolveFakerPath(override.faker) = "function"
         THEN [error |-> "", values |-> Draws("string", override.faker \o "#")]
         ELSE [error |-> "Invalid faker override: " \o override.faker, values |-> <<>>]
    ELSE IF ArrayBase(Lower(column.udtName)) # ""
    THEN [error |-> "", values |-> ArrayValues(column, ArrayBase(Lower(column.udtName)), enums)]
    ELSE [error |-> "", values |-> ScalarValues(column, Lower(column.dataType), enums)]

-----------------------------------------------------------------------------
(* The storage collaborator: a PostgreSQL session inside one transaction.  *)
(* A table's rows are a sequence of rows, a row maps column names to       *)
(* values.                                                                 *)

TableKey(schema, name) == schema \o "." \o name

\* the order of `order by`: numbers by value, then texts, nulls last
OrderedTexts == [i \in 1..60 |-> ToString(i)] \o <<"a", "b", "c", "x", "y">>

ValueRank(v) == IF v = NULL THEN 1000 ELSE IndexOf(OrderedTexts, v[2])

RECURSIVE TupleLess(_, _)
TupleLess(a, b) ==
    /\ Len(a) > 0 /\ Len(b) > 0
    /\ \/ ValueRank(Head(a)) < ValueRank(Head(b))
       \/ ValueRank(Head(a)) = ValueRank(Head(b)) /\ TupleLess(Tail(a), Tail(b))

\* insertion into a sorted sequence, after the elements that are not greater
RECURSIVE InsertSorted(_, _)
InsertSorted(sorted, t) ==
    IF Len(sorted) = 0 THEN <<t>>
    ELSE IF TupleLess(t, Head(sorted)) THEN <<t>> \o sorted
    ELSE <<Head(sorted)>> \o InsertSorted(Tail(sorted), t)

RECURSIVE SortTuples(_)
SortTuples(tuples) ==
    IF Len(tuples) = 0 THEN <<>>
    ELSE InsertSorted(SortTuples(SubSeq(tuples, 1, Len(tuples) - 1)), tuples[Len(tuples)])

FirstN(s, n) == IF Len(s) <= n THEN s ELSE SubSeq(s, 1, n)

Project(row, columns) == [i \in 1..Len(columns) |-> row[columns[i]]]

\* select <columns> from <table> order by <columns> limit <limit>
SelectOrdered(store, key, columns, limit) ==
    FirstN(SortTuples([i \in 1..Len(store[key]) |-> Project(store[key][i], columns)]), limit)

\* select count(*) from <table>
SelectCount(store, key) == Len(store[key])

\* the value the database gives a column that the insert statement leaves
\* out: the next number for an identity or sequence column, the constant of
\* a constant default, null otherwise
DatabaseValue(column, rowsBefore) ==
    IF column.isIdentity \/ column.columnDefault = "nextval" THEN Num(rowsBefore + 1)
    ELSE IF column.isGenerated THEN Str("generated")
    ELSE IF column.columnDefault = "'x'" THEN Str("x")
    ELSE NULL

\* the row the database stores for an insert of `values` into `columns`
\* (column names) when the table holds rowsBefore rows
StoredRow(table, columns, values, rowsBefore) ==
    [c \in Range(ColumnNames(table.columns)) |->
        IF SeqHas(columns, c) THEN values[IndexOf(columns, c) + 1]
        ELSE DatabaseValue(table.columns[IndexOf(ColumnNames(table.columns), c) + 1],
                           rowsBefore)]

AllNonNull(tuple) == \A i \in 1..Len(tuple) : tuple[i] # NULL

\* Mutant of IntegrityViolation: the backend enforces nothing.
IntegrityViolationNone(store, tables, table, row, rowsBefore) == ""

\* the SQLSTATE the backend raises when `row` joins rowsBefore in `table`, ""
\* when it accepts the row: 23502 not-null, 23505 unique or primary key,
\* 23503 foreign key (a key with a null column is not checked)
IntegrityViolation(store, tables, table, row, rowsBefore) ==
    LET keys == [i \in 1..Len(table.uniqueConstraints) |-> table.uniqueConstraints[i].columns]
                \o (IF Len(table.pkColumns) > 0 THEN <<table.pkColumns>> ELSE <<>>)
    IN  IF \E i \in 1..Len(table.columns) :
               ~table.columns[i].isNullable /\ row[table.columns[i].name] = NULL
        THEN "23502"
        ELSE IF \E k \in 1..Len(keys), j \in 1..Len(rowsBefore) :
                    /\ AllNonNull(Project(row, keys[k]))
                    /\ Project(row, keys[k]) = Project(rowsBefore[j], keys[k])
        THEN "23505"
        ELSE IF \E f \in 1..Len(table.fks) :
                    LET fk == table.fks[f]
                        ref == TableKey(fk.refSchema, fk.refTable)
                        refRows == IF ref = TableKey(table.schema, table.name)
                                   THEN Append(rowsBefore, row) ELSE store[ref]
                    IN  /\ AllNonNull(Project(row, fk.columns))
                        /\ ~\E j \in 1..Len(refRows) :
                               Project(refRows[j], fk.refColumns) = Project(row, fk.columns)
        THEN "23503"
        ELSE ""

\* a multi-row insert: [error, rows]: the first violation, or the table's
\* rows with the new ones appended
RECURSIVE InsertRows(_, _, _, _, _, _)
InsertRows(store, tables, table, columns, valueRows, rowsBefore) ==
    IF Len(valueRows) = 0 THEN [error |-> "", rows |-> rowsBefore]
    ELSE LET row  == StoredRow(table, columns, Head(valueRows), Len(rowsBefore))
             code == IntegrityViolation(store, tables, table, row, rowsBefore)
         IN  IF code # "" THEN [error |-> code, rows |-> rowsBefore]
             ELSE InsertRows(store, tables, table, columns, Tail(valueRows),
                             Append(rowsBefore, row))

-----------------------------------------------------------------------------
(* The databases the runs start from.  A catalog is the tables as they are *)
(* declared (in table_name order per schema, a table's foreign keys in     *)
(* constraint_name order), the enum labels, and the rows stored before the *)
(* run.                                                                    *)

MaxRecords == 2

Identity(column) == [column EXCEPT !.isIdentity = TRUE]

WithDefault(column, expr) == [column EXCEPT !.columnDefault = expr]

IntRow(names, ints) == [c \in Range(names) |-> Num(ints[IndexOf(names, c) + 1])]

\* family: children reference parents, which sort after them by name and
\* hold one row
FamilyTables ==
    <<Table("public", "children", <<IntCol("parent_id", FALSE)>>, <<>>,
            <<Fk(<<"parent_id">>, "public", "parents", <<"id">>)>>, <<>>),
      Table("public", "parents", <<IntCol("id", FALSE)>>, <<"id">>, <<>>, <<>>)>>

FamilyRows == ("public.children" :> <<>>) @@ ("public.parents" :> <<[id |-> Num(1)]>>)

\* library: awards and books reference authors; all are empty and authors
\* has only an identity column
LibraryTables ==
    <<Table("public", "authors", <<Identity(IntCol("id", FALSE))>>, <<"id">>, <<>>, <<>>),
      Table("public", "awards", <<IntCol("author_id", TRUE)>>, <<>>,
            <<Fk(<<"author_id">>, "public", "authors", <<"id">>)>>, <<>>),
      Table("public", "books", <<IntCol("author_id", FALSE)>>, <<>>,
            <<Fk(<<"author_id">>, "public", "authors", <<"id">>)>>, <<>>)>>

LibraryRows ==
    ("public.authors" :> <<>>) @@ ("public.awards" :> <<>>) @@ ("public.books" :> <<>>)

\* tenants: app.orders references crm.customers across schemas; customers
\* has only an identity column
TenantsTables ==
    <<Table("app", "orders", <<IntCol("customer_id", FALSE)>>, <<>>,
            <<Fk(<<"customer_id">>, "crm", "customers", <<"id">>)>>, <<>>),
      Table("crm", "customers", <<Identity(IntCol("id", FALSE))>>, <<"id">>, <<>>, <<>>)>>

TenantsRows ==
    ("app.orders" :> <<>>) @@ ("crm.customers" :> <<IntRow(<<"id">>, <<1>>)>>)

\* shared: memberships has two composite foreign keys that share tenant_id
SharedTables ==
    <<Table("public", "groups", <<IntCol("tenant_id", FALSE), IntCol("id", FALSE)>>,
            <<"tenant_id", "id">>, <<>>, <<>>),
      Table("public", "memberships",
            <<IntCol("tenant_id", FALSE), IntCol("user_id", FALSE), IntCol("group_id", FALSE)>>,
            <<>>,
            <<Fk(<<"tenant_id", "user_id">>, "public", "users", <<"tenant_id", "id">>),
              Fk(<<"tenant_id", "group_id">>, "public", "groups", <<"tenant_id", "id">>)>>,
            <<>>),
      Table("public", "users", <<IntCol("tenant_id", FALSE), IntCol("id", FALSE)>>,
            <<"tenant_id", "id">>, <<>>, <<>>)>>

SharedRows ==
    ("public.groups" :> <<IntRow(<<"tenant_id", "id">>, <<1, 1>>),
                          IntRow(<<"tenant_id", "id">>, <<2, 1>>)>>)
    @@ ("public.memberships" :> <<>>)
    @@ ("public.users" :> <<IntRow(<<"tenant_id", "id">>, <<1, 1>>),
                            IntRow(<<"tenant_id", "id">>, <<2, 2>>)>>)

\* codes: items.code is NOT NULL and references the nullable unique
\* codes.code, which holds a null; items.label has an override
CodesTables ==
    <<Table("public", "codes", <<IntCol("code", TRUE)>>, <<>>, <<>>,
            <<Uq("codes_code_key", <<"code">>)>>),
      Table("public", "items", <<IntCol("code", FALSE), TextCol("label", FALSE)>>, <<>>,
            <<Fk(<<"code">>, "public", "codes", <<"code">>)>>, <<>>)>>

CodesRows ==
    ("public.codes" :> <<[code |-> NULL]>>) @@ ("public.items" :> <<>>)

\* accounts: a unique NOT NULL text column that already holds one value
AccountsTables ==
    <<Table("public", "accounts", <<TextCol("email", FALSE)>>, <<>>, <<>>,
            <<Uq("accounts_email_key", <<"email">>)>>)>>

AccountsRows == ("public.accounts" :> <<[email |-> Str("email1")]>>)

\* settings: a unique column filled by a constant default, which the insert
\* statement leaves out, and a nullable quantity
SettingsTables ==
    <<Table("public", "settings",
            <<WithDefault(TextCol("code", FALSE), "'x'"), IntCol("qty", TRUE)>>, <<>>, <<>>,
            <<Uq("settings_code_key", <<"code">>)>>)>>

SettingsRows == ("public.settings" :> <<>>)

\* links: a two-column unique constraint over two single-column foreign keys
LinksTables ==
    <<Table("public", "as", <<IntCol("id", FALSE)>>, <<"id">>, <<>>, <<>>),
      Table("public", "bs", <<IntCol("id", FALSE)>>, <<"id">>, <<>>, <<>>),
      Table("public", "links", <<IntCol("a_id", FALSE), IntCol("b_id", FALSE)>>, <<>>,
            <<Fk(<<"a_id">>, "public", "as", <<"id">>),
              Fk(<<"b_id">>, "public", "bs", <<"id">>)>>,
            <<Uq("links_a_b_key", <<"a_id", "b_id">>)>>)>>

LinksRows ==
    ("public.as" :> <<[id |-> Num(1)], [id |-> Num(2)]>>)
    @@ ("public.bs" :> <<[id |-> Num(1)], [id |-> Num(2)]>>)
    @@ ("public.links" :> <<>>)

\* cycle: a and b reference each other, c references b, d references
\* nothing; a second schema holds one table
CycleTables ==
    <<Table("public", "a", <<IntCol("id", FALSE), IntCol("b_id", TRUE)>>, <<"id">>,
            <<Fk(<<"b_id">>, "public", "b", <<"id">>)>>, <<>>),
      Table("public", "b", <<IntCol("id", FALSE), IntCol("a_id", TRUE)>>, <<"id">>,
            <<Fk(<<"a_id">>, "public", "a", <<"id">>)>>, <<>>),
      Table("public", "c", <<IntCol("b_id", TRUE)>>, <<>>,
            <<Fk(<<"b_id">>, "public", "b", <<"id">>)>>, <<>>),
      Table("public", "d", <<Identity(IntCol("id", FALSE))>>, <<"id">>, <<>>, <<>>),
      Table("aux", "logs", <<Identity(IntCol("id", FALSE))>>, <<"id">>, <<>>, <<>>)>>

CycleRows ==
    ("public.a" :> <<>>) @@ ("public.b" :> <<>>) @@ ("public.c" :> <<>>)
    @@ ("public.d" :> <<>>) @@ ("aux.logs" :> <<>>)

\* visits: a timestamp column and a nullable time of day
VisitsTables ==
    <<Table("public", "visits",
            <<Col("seen_at", "timestamp with time zone", "timestamptz", FALSE),
              Col("opens", "time without time zone", "time", TRUE)>>, <<>>, <<>>, <<>>)>>

VisitsRows == ("public.visits" :> <<>>)

\* staff: employees reference themselves; offices reference nothing
StaffTables ==
    <<Table("public", "employees", <<IntCol("id", FALSE), IntCol("manager_id", TRUE)>>,
            <<"id">>, <<Fk(<<"manager_id">>, "public", "employees", <<"id">>)>>, <<>>),
      Table("public", "offices", <<Identity(IntCol("id", FALSE))>>, <<"id">>, <<>>, <<>>)>>

StaffRows == ("public.employees" :> <<>>) @@ ("public.offices" :> <<>>)

\* counters: an identity column only, two rows short of the command line's cap
CountersTables ==
    <<Table("public", "counters", <<Identity(IntCol("id", FALSE))>>, <<"id">>, <<>>, <<>>)>>

CountersRows == ("public.counters" :> [i \in 1..48 |-> [id |-> Num(i)]])

\* seats: a queued two-column constraint next to a single-column one; the
\* stored seat has no room, so its pair key is null
SeatsTables ==
    <<Table("public", "desks", <<IntCol("id", FALSE)>>, <<"id">>, <<>>, <<>>),
      Table("public", "rooms", <<IntCol("id", FALSE)>>, <<"id">>, <<>>, <<>>),
      Table("public", "seats",
            <<IntCol("room_id", TRUE), IntCol("desk_id", FALSE), TextCol("tag", FALSE)>>, <<>>,
            <<Fk(<<"desk_id">>, "public", "desks", <<"id">>),
              Fk(<<"room_id">>, "public", "rooms", <<"id">>)>>,
            <<Uq("seats_room_desk_key", <<"room_id", "desk_id">>),
              Uq("seats_tag_key", <<"tag">>)>>)>>

SeatsRows ==
    ("public.desks" :> <<[id |-> Num(1)]>>) @@ ("public.rooms" :> <<[id |-> Num(1)]>>)
    @@ ("public.seats" :> <<[room_id |-> NULL, desk_id |-> Num(1), tag |-> Str("x")]>>)

\* routes: two two-column constraints over foreign keys that share host_id
RoutesTables ==
    <<Table("public", "hosts", <<IntCol("id", FALSE)>>, <<"id">>, <<>>, <<>>),
      Table("public", "ports", <<IntCol("id", FALSE)>>, <<"id">>, <<>>, <<>>),
      Table("public", "routes",
            <<IntCol("host_id", FALSE), IntCol("port_id", FALSE), IntCol("zone_id", FALSE)>>,
            <<>>,
            <<Fk(<<"host_id">>, "public", "hosts", <<"id">>),
              Fk(<<"port_id">>, "public", "ports", <<"id">>),
              Fk(<<"zone_id">>, "public", "zones", <<"id">>)>>,
            <<Uq("routes_host_port_key", <<"host_id", "port_id">>),
              Uq("routes_host_zone_key", <<"host_id", "zone_id">>)>>),
      Table("public", "zones", <<IntCol("id", FALSE)>>, <<"id">>, <<>>, <<>>)>>

RoutesRows ==
    ("public.hosts" :> <<[id |-> Num(1)], [id |-> Num(2)]>>)
    @@ ("public.ports" :> <<[id |-> Num(1)]>>)
    @@ ("public.routes" :> <<>>)
    @@ ("public.zones" :> <<[id |-> Num(1)]>>)

\* picks: the pools of a two-column constraint have 14 x 15 pairs
PicksTables ==
    <<Table("public", "picks", <<IntCol("w_id", FALSE), IntCol("v_id", FALSE)>>, <<>>,
            <<Fk(<<"v_id">>, "public", "vs", <<"id">>),
              Fk(<<"w_id">>, "public", "ws", <<"id">>)>>,
            <<Uq("picks_w_v_key", <<"w_id", "v_id">>)>>),
      Table("public", "vs", <<IntCol("id", FALSE)>>, <<"id">>, <<>>, <<>>),
      Table("public", "ws", <<IntCol("id", FALSE)>>, <<"id">>, <<>>, <<>>)>>

PicksRows ==
    ("public.picks" :> <<>>)
    @@ ("public.vs" :> [i \in 1..14 |-> [id |-> Num(i)]])
    @@ ("public.ws" :> [i \in 1..15 |-> [id |-> Num(i)]])

\* memos: a two-column constraint over a foreign key with an empty pool, and
\* one over a foreign key and a plain column
MemosTables ==
    <<Table("public", "memos",
            <<IntCol("owner_id", TRUE), IntCol("topic_id", TRUE), IntCol("rank", FALSE)>>,
            <<>>,
            <<Fk(<<"owner_id">>, "public", "owners", <<"id">>),
              Fk(<<"topic_id">>, "public", "topics", <<"id">>)>>,
            <<Uq("memos_owner_topic_key", <<"owner_id", "topic_id">>),
              Uq("memos_topic_rank_key", <<"topic_id", "rank">>)>>),
      Table("public", "owners", <<IntCol("id", FALSE)>>, <<"id">>, <<>>, <<>>),
      Table("public", "topics", <<IntCol("id", FALSE)>>, <<"id">>, <<>>, <<>>)>>

MemosRows ==
    ("public.memos" :> <<>>) @@ ("public.owners" :> <<>>)
    @@ ("public.topics" :> <<[id |-> Num(1)]>>)

\* pairs: a two-column constraint over two foreign keys, one of whose pairs
\* is stored already
PairsTables ==
    <<Table("public", "ls", <<IntCol("id", FALSE)>>, <<"id">>, <<>>, <<>>),
      Table("public", "pairs", <<IntCol("l_id", FALSE), IntCol("r_id", FALSE)>>, <<>>,
            <<Fk(<<"l_id">>, "public", "ls", <<"id">>),
              Fk(<<"r_id">>, "public", "rs", <<"id">>)>>,
            <<Uq("pairs_l_r_key", <<"l_id", "r_id">>)>>),
      Table("public", "rs", <<IntCol("id", FALSE)>>, <<"id">>, <<>>, <<>>)>>

PairsRows ==
    ("public.ls" :> <<[id |-> Num(1)], [id |-> Num(2)]>>)
    @@ ("public.pairs" :> <<[l_id |-> Num(1), r_id |-> Num(1)]>>)
    @@ ("public.rs" :> <<[id |-> Num(1)]>>)

\* shifts: two composite foreign keys that share the nullable tenant_id; the
\* parent of the first one, crews, is empty
ShiftsTables ==
    <<Table("public", "crews", <<IntCol("tenant_id", FALSE), IntCol("id", FALSE)>>,
            <<"tenant_id", "id">>, <<>>, <<>>),
      Table("public", "depots", <<IntCol("tenant_id", FALSE), IntCol("id", FALSE)>>,
            <<"tenant_id", "id">>, <<>>, <<>>),
      Table("public", "shifts",
            <<IntCol("tenant_id", TRUE), IntCol("crew_id", TRUE), IntCol("depot_id", TRUE)>>,
            <<>>,
            <<Fk(<<"tenant_id", "crew_id">>, "public", "crews", <<"tenant_id", "id">>),
              Fk(<<"tenant_id", "depot_id">>, "public", "depots", <<"tenant_id", "id">>)>>,
            <<>>)>>

ShiftsRows ==
    ("public.crews" :> <<>>)
    @@ ("public.depots" :> <<IntRow(<<"tenant_id", "id">>, <<1, 1>>)>>)
    @@ ("public.shifts" :> <<>>)

CatalogNames ==
    {"family", "library", "tenants", "shared", "codes", "accounts", "settings", "links",
     "cycle", "counters", "visits", "staff", "shifts"}

Catalog(name) ==
    CASE name = "family"   -> [name |-> name, tables |-> FamilyTables, enums |-> <<>>, rows |-> FamilyRows]
      [] name = "library"  -> [name |-> name, tables |-> LibraryTables, enums |-> <<>>, rows |-> LibraryRows]
      [] name = "tenants"  -> [name |-> name, tables |-> TenantsTables, enums |-> <<>>, rows |-> TenantsRows]
      [] name = "shared"   -> [name |-> name, tables |-> SharedTables, enums |-> <<>>, rows |-> SharedRows]
      [] name = "codes"    -> [name |-> name, tables |-> CodesTables, enums |-> <<>>, rows |-> CodesRows]
      [] name = "accounts" -> [name |-> name, tables |-> AccountsTables, enums |-> <<>>, rows |-> AccountsRows]
      [] name = "settings" -> [name |-> name, tables |-> SettingsTables, enums |-> <<>>, rows |-> SettingsRows]
      [] name = "links"    -> [name |-> name, tables |-> LinksTables, enums |-> <<>>, rows |-> LinksRows]
      [] name = "cycle"    -> [name |-> name, tables |-> CycleTables, enums |-> <<>>, rows |-> CycleRows]
      [] name = "counters" -> [name |-> name, tables |-> CountersTables, enums |-> <<>>, rows |-> CountersRows]
      [] name = "staff"    -> [name |-> name, tables |-> StaffTables, enums |-> <<>>, rows |-> StaffRows]
      [] name = "visits"   -> [name |-> name, tables |-> VisitsTables, enums |-> <<>>, rows |-> VisitsRows]
      [] name = "seats"    -> [name |-> name, tables |-> SeatsTables, enums |-> <<>>, rows |-> SeatsRows]
      [] name = "routes"   -> [name |-> name, tables |-> RoutesTables, enums |-> <<>>, rows |-> RoutesRows]
      [] name = "picks"    -> [name |-> name, tables |-> PicksTables, enums |-> <<>>, rows |-> PicksRows]
      [] name = "memos"    -> [name |-> name, tables |-> MemosTables, enums |-> <<>>, rows |-> MemosRows]
      [] name = "shifts"   -> [name |-> name, tables |-> ShiftsTables, enums |-> <<>>, rows |-> ShiftsRows]
      [] name = "pairs"    -> [name |-> name, tables |-> PairsTables, enums |-> <<>>, rows |-> PairsRows]

\* types.ts Config as the command line merges it (cli.ts lines 53-59):
\* schemas <<>> is absent, includeTables and excludeTables <<>> are absent,
\* overrides is a Map of keys to overrides
BaseConfig(maxRecords, dryRun) ==
    [schema |-> "public", schemas |-> <<>>, maxRecords |-> maxRecords, seed |-> 1337,
     includeTables |-> <<>>, excludeTables |-> <<>>, dryRun |-> dryRun, overrides |-> <<>>]

\* the configurations each catalog is run with
Configs(name) ==
    LET small == {BaseConfig(m, d) : m \in 0..MaxRecords, d \in BOOLEAN}
    IN  CASE name = "family" ->
                small
                \cup {[c EXCEPT !.excludeTables = <<"public.parents">>] : c \in small}
                \cup {[c EXCEPT !.includeTables = <<"parents", "orders">>] : c \in small}
                \cup {[c EXCEPT !.includeTables = <<"public.children", "parents">>,
                                !.excludeTables = <<"parents">>] : c \in small}
                \cup {[c EXCEPT !.schemas = <<"pg_catalog">>] : c \in small}
                \cup {[c EXCEPT !.schemas = <<"public", "information_schema">>] : c \in small}
          [] name = "tenants" ->
                {[c EXCEPT !.schemas = <<"app", "crm">>] : c \in small}
                \cup {[c EXCEPT !.schemas = <<"crm", "app">>] : c \in small}
          [] name = "codes" ->
                {[c EXCEPT !.overrides =
                      <<[key |-> "items.label", val |-> Override("", <<Str("a"), NULL>>)]>>]
                 : c \in small}
                \cup {[c EXCEPT !.overrides =
                      <<[key |-> "label", val |-> Override("lorem.word", <<>>)],
                        [key |-> "public.items.label", val |-> Override("lorem", <<>>)]>>]
                 : c \in small}
                \cup {[c EXCEPT !.overrides =
                      <<[key |-> "label", val |-> Override("", <<Str("c")>>)],
                        [key |-> "items.label", val |-> Override("", <<Str("b")>>)],
                        [key |-> "public.items.label", val |-> Override("", <<Str("a")>>)]>>]
                 : c \in small}
                \cup {[c EXCEPT !.overrides =
                      <<[key |-> "label", val |-> Override("", <<Str("c")>>)],
                        [key |-> "codes.label", val |-> Override("", <<Str("y")>>)],
                        [key |-> "items.label", val |-> Override("", <<Str("b")>>)]>>]
                 : c \in small}
                \cup {[c EXCEPT !.overrides =
                      <<[key |-> "public.items.label", val |-> NoOverride],
                        [key |-> "label", val |-> Override("", <<Str("c")>>)]>>]
                 : c \in small}
          [] name = "accounts" ->
                small \cup {[c EXCEPT !.schemas = <<"public", "public">>] : c \in small}
                \cup {[c EXCEPT !.overrides =
                          <<[key |-> "email", val |-> Override("", <<Str("email1")>>)]>>]
                      : c \in small}
                \cup {[c EXCEPT !.overrides =
                          <<[key |-> "accounts.email",
                             val |-> Override("", <<Str("email1"), Str("b")>>)]>>]
                      : c \in small}
          [] name = "cycle" ->
                small
                \cup {[c EXCEPT !.schemas = <<"aux", "public">>] : c \in small}
                \cup {[c EXCEPT !.schemas = <<"public", "aux">>] : c \in small}
                \cup {[c EXCEPT !.includeTables = <<"c", "d">>] : c \in small}
          [] name = "settings" ->
                small
                \cup {[c EXCEPT !.overrides =
                          <<[key |-> "qty", val |-> Override("no.such", <<>>)]>>] : c \in small}
          [] name = "links" ->
                small
                \cup {[BaseConfig(4, d) EXCEPT !.includeTables = <<"links">>] : d \in BOOLEAN}
          [] name = "counters" -> {BaseConfig(51, d) : d \in BOOLEAN}
          [] name = "library" ->
                small \cup {[c EXCEPT !.includeTables = <<"books">>] : c \in small}
          [] name = "shifts" ->
                {[c EXCEPT !.includeTables = <<"shifts">>] : c \in small}
          [] OTHER -> small

-----------------------------------------------------------------------------
(* introspect.ts and index.ts: the orchestrator's helpers                  *)

DEFAULT_POOL_LIMIT == 5000

PoolFloor == 50

PoolFactor == 5

PairFloor == 200

PairFactor == 5

MaxAttempts == 25

BatchSize == 100

CliMaxRecords == 50

Max(a, b) == IF a > b THEN a ELSE b

Min(a, b) == IF a < b THEN a ELSE b

\* Mutant of SYSTEM_SCHEMAS: no schema is refused.
SystemSchemasNone == {}

\* introspect.ts line 4
SYSTEM_SCHEMAS == {"pg_catalog", "information_schema"}

\* introspect.ts lines 96-110 and 160-181: the ForeignKeyInfo built from the
\* rows of the foreign-key query.  The query joins key_column_usage (the
\* key's columns) with constraint_column_usage (the referenced columns) on
\* the constraint's name alone, so a key of n columns yields n * n rows, in
\* the order of the key's columns; the order of the referenced columns
\* within one key column is left to the database (ccuReversed).
IntrospectFk(fk, ccuReversed) ==
    LET n == Len(fk.refColumns)
    IN  [columns    |-> [k \in 1..(Len(fk.columns) * n) |-> fk.columns[((k - 1) \div n) + 1]],
         refSchema  |-> fk.refSchema,
         refTable   |-> fk.refTable,
         refColumns |-> [k \in 1..(Len(fk.columns) * n) |->
                            fk.refColumns[IF ccuReversed THEN n - ((k - 1) % n)
                                          ELSE ((k - 1) % n) + 1]]]

\* introspect.ts lines 37-222: [error, tables] for one schema.  The join of
\* the foreign-key query asks for ccu.table_schema = tc.table_schema: a key
\* that references another schema is not reported.
introspectTables(catalog, schema, ccuReversed) ==
    IF schema \in SYSTEM_SCHEMAS
    THEN [error |-> "Refusing to introspect system schema", tables |-> <<>>]
    ELSE LET declared == SelectSeq(catalog.tables, LAMBDA t : t.schema = schema)
         IN  [error  |-> "",
              tables |-> [i \in 1..Len(declared) |->
                  LET reported == SelectSeq(declared[i].fks, LAMBDA fk : fk.refSchema = schema)
                  IN  [declared[i] EXCEPT !.fks =
                          [f \in 1..Len(reported) |-> IntrospectFk(reported[f], ccuReversed)]]]]

\* introspect.ts lines 21-34: each label under the scoped and the bare key;
\* catalog.enums holds the query's rows [schema, name, label]
RECURSIVE loadEnums(_, _, _, _)
loadEnums(catalog, schema, i, map) ==
    IF i > Len(catalog.enums) THEN map
    ELSE LET row == catalog.enums[i]
             scopedKey == row.schema \o "." \o row.name
             scoped == MapSet(map, scopedKey,
                              Append(IF MapHas(map, scopedKey) THEN MapGet(map, scopedKey)
                                     ELSE <<>>, row.label))
             both == MapSet(scoped, row.name,
                            Append(IF MapHas(scoped, row.name) THEN MapGet(scoped, row.name)
                                   ELSE <<>>, row.label))
         IN  IF row.schema # schema THEN loadEnums(catalog, schema, i + 1, map)
             ELSE loadEnums(catalog, schema, i + 1, both)

\* index.ts lines 167-174
\* Mutant of matchesTableFilter: only the bare name is looked up.
MatchesBareName(filter, schema, table) == SeqHas(filter, table)

matchesTableFilter(filter, schema, table) ==
    SeqHas(filter, table) \/ SeqHas(filter, schema \o "." \o table)

\* index.ts lines 35-40 and 47-53: an empty list is no filter
FilterTables(allTables, cfg) ==
    SelectSeq(allTables, LAMBDA t :
        /\ ~(Len(cfg.includeTables) > 0
             /\ ~matchesTableFilter(cfg.includeTables, t.schema, t.name))
        /\ ~(Len(cfg.excludeTables) > 0
             /\ matchesTableFilter(cfg.excludeTables, t.schema, t.name)))

\* index.ts line 55: the Set of the tables' names
RECURSIVE TableNameSet(_, _)
TableNameSet(tables, i) ==
    IF i < 1 THEN <<>> ELSE SetAdd(TableNameSet(tables, i - 1), tables[i].name)

\* index.ts lines 58-66: one table's foreign keys; a key into another schema
\* or into a table that is not seeded adds nothing
RECURSIVE FkEdges(_, _, _, _, _)
FkEdges(table, f, schema, names, edges) ==
    IF f > Len(table.fks) THEN edges
    ELSE IF table.fks[f].refSchema # schema \/ ~SeqHas(names, table.fks[f].refTable)
         THEN FkEdges(table, f + 1, schema, names, edges)
         ELSE FkEdges(table, f + 1, schema, names,
                      AddEdge(edges, table.fks[f].refTable, table.name))

\* Mutant of DependencyEdges: no edge is recorded.
DependencyEdgesNone(tables, i, schema, names, edges) == edges

\* index.ts lines 56-67: the Map parent -> Set of children
RECURSIVE DependencyEdges(_, _, _, _, _)
DependencyEdges(tables, i, schema, names, edges) ==
    IF i > Len(tables) THEN edges
    ELSE DependencyEdges(tables, i + 1, schema, names,
                         FkEdges(tables[i], 1, schema, names, edges))

\* index.ts lines 70-72: the tables in the sorted order of their names
OrderedTables(tables, orderedNames) ==
    LET found == [i \in 1..Len(orderedNames) |->
                    SelectSeq(tables, LAMBDA t : t.name = orderedNames[i])]
        kept  == SelectSeq(found, LAMBDA l : Len(l) > 0)
    IN  [i \in 1..Len(kept) |-> kept[i][1]]

RECURSIVE Join(_, _)
Join(strings, sep) ==
    IF Len(strings) = 0 THEN ""
    ELSE IF Len(strings) = 1 THEN strings[1]
    ELSE strings[1] \o sep \o Join(Tail(strings), sep)

\* index.ts lines 314-316
foreignKeyPoolKey(fk) ==
    fk.refSchema \o "." \o fk.refTable \o ":" \o Join(fk.refColumns, ",")

\* Mutant of Target: the rows already stored are not counted.
TargetIgnoringExisting(maxRecords, existing) == Max(0, maxRecords)

\* index.ts line 99
Target(maxRecords, existing) == Max(0, maxRecords - existing)

\* index.ts line 291
PoolLimit(maxRecords) == Min(DEFAULT_POOL_LIMIT, Max(PoolFloor, maxRecords * PoolFactor))

PoolOf(fkPools, fk) ==
    IF MapHas(fkPools, foreignKeyPoolKey(fk)) THEN MapGet(fkPools, foreignKeyPoolKey(fk))
    ELSE <<>>

\* Mutant of loadForeignKeyPools: the cache is never consulted.
RECURSIVE loadForeignKeyPoolsUncached(_, _, _, _, _)
loadForeignKeyPoolsUncached(store, table, f, maxRecords, acc) ==
    IF f > Len(table.fks) THEN acc
    ELSE LET fk   == table.fks[f]
             key  == foreignKeyPoolKey(fk)
             pool == SelectOrdered(store, TableKey(fk.refSchema, fk.refTable),
                                   fk.refColumns, PoolLimit(maxRecords))
         IN  loadForeignKeyPoolsUncached(store, table, f + 1, maxRecords,
                 [pools   |-> MapSet(acc.pools, key, pool),
                  cache   |-> MapSet(acc.cache, key, pool),
                  queried |-> Append(acc.queried, key)])

\* index.ts lines 284-312: [pools, cache, queried]: a key found in the cache
\* is not queried again; queried lists the keys this call queried
RECURSIVE loadForeignKeyPools(_, _, _, _, _)
loadForeignKeyPools(store, table, f, maxRecords, acc) ==
    IF f > Len(table.fks) THEN acc
    ELSE LET fk   == table.fks[f]
             key  == foreignKeyPoolKey(fk)
             pool == SelectOrdered(store, TableKey(fk.refSchema, fk.refTable),
                                   fk.refColumns, PoolLimit(maxRecords))
         IN  IF MapHas(acc.cache, key)
             THEN loadForeignKeyPools(store, table, f + 1, maxRecords,
                      [acc EXCEPT !.pools = MapSet(acc.pools, key, MapGet(acc.cache, key))])
             ELSE loadForeignKeyPools(store, table, f + 1, maxRecords,
                      [pools   |-> MapSet(acc.pools, key, pool),
                       cache   |-> MapSet(acc.cache, key, pool),
                       queried |-> Append(acc.queried, key)])

\* index.ts lines 476-497: the error for an empty pool behind a foreign key
\* with a column that is not nullable (or not a column of the table), "" when
\* every pool passes
\* Mutant of validateForeignKeyPools: every pool passes.
ValidateNothing(table, fkPools) == ""

validateForeignKeyPools(table, fkPools) ==
    LET failing == {f \in 1..Len(table.fks) :
                       /\ Len(PoolOf(fkPools, table.fks[f])) = 0
                       /\ \E c \in Range(table.fks[f].columns) :
                              ~\E i \in 1..Len(table.columns) :
                                  table.columns[i].name = c /\ table.columns[i].isNullable}
        fk == table.fks[CHOOSE f \in failing : \A g \in failing : f <= g]
    IN  IF failing = {} THEN ""
        ELSE "Foreign key pool empty for " \o TableKey(table.schema, table.name) \o " -> "
             \o TableKey(fk.refSchema, fk.refTable)
             \o ". Seed parent table first or allow nulls on " \o Join(fk.columns, ", ") \o "."

\* index.ts line 112
FkColumns(table) == UNION {Range(table.fks[f].columns) : f \in 1..Len(table.fks)}

\* index.ts lines 114-118
InsertColumns(table) ==
    SelectSeq(table.columns, LAMBDA column :
        /\ ~(column.isIdentity \/ column.isGenerated)
        /\ ~(column.columnDefault # "" /\ column.name \notin FkColumns(table)))

\* a ColumnInfo object as a Map key: no string is equal to it
ColumnObject(column) == <<"ColumnInfo", column>>

\* index.ts line 119: what seedTable passes as insertColumnNames: the
\* ColumnInfo objects themselves
UniqueSetsArgument(insertColumns) ==
    [i \in 1..Len(insertColumns) |-> ColumnObject(insertColumns[i])]

\* index.ts line 332: the insertColumnNames parameter as declared, the
\* columns' names
InsertColumnNames(insertColumns) ==
    [i \in 1..Len(insertColumns) |-> Str(insertColumns[i].name)]

\* index.ts lines 334-336: new Map(insertColumnNames.map((name, index) => [name, index]))
RECURSIVE IndexMap(_, _)
IndexMap(insertColumnNames, i) ==
    IF i < 1 THEN <<>>
    ELSE MapSet(IndexMap(insertColumnNames, i - 1), insertColumnNames[i], i - 1)

\* index.ts lines 341-348: missing, one of the constraint's columns is no key
\* of the Map
ConstraintMissing(indexMap, columns) ==
    \E c \in Range(columns) : ~MapHas(indexMap, Str(c))

\* index.ts lines 340-349: the constraint's indices
ConstraintIndices(indexMap, columns) ==
    [i \in 1..Len(columns) |-> MapGet(indexMap, Str(columns[i]))]

\* index.ts lines 330-359: one tracker per constraint that has a column and
\* whose columns are all keys of the Map; its set starts empty and it has no
\* pair queue
buildUniqueConstraintSets(table, insertColumnNames) ==
    LET indexMap == IndexMap(insertColumnNames, Len(insertColumnNames))
        kept == SelectSeq(table.uniqueConstraints, LAMBDA constraint :
                    /\ Len(constraint.columns) # 0
                    /\ ~ConstraintMissing(indexMap, constraint.columns))
    IN  [i \in 1..Len(kept) |->
            [name |-> kept[i].name, columns |-> kept[i].columns,
             indices |-> ConstraintIndices(indexMap, kept[i].columns),
             set |-> {}, hasQueue |-> FALSE, pairQueue |-> <<>>]]

\* index.ts lines 361-379: every tracker's set gains the key of every stored
\* row that has one
loadUniqueConstraintValues(store, table, constraints) ==
    LET rows == store[TableKey(table.schema, table.name)]
    IN  [i \in 1..Len(constraints) |->
            [constraints[i] EXCEPT !.set =
                @ \cup ({buildUniqueKeyFromColumns(rows[r], constraints[i].columns)
                         : r \in 1..Len(rows)} \ {NoKey})]]

\* index.ts lines 318-328
\* Mutant of resolveOverride: the bare column name is looked up first.
ResolveBareFirst(overrides, schema, table, column) ==
    LET fullKey  == schema \o "." \o table \o "." \o column
        tableKey == table \o "." \o column
        found(key) == MapHas(overrides, key) /\ MapGet(overrides, key).defined
    IN  IF found(column) THEN MapGet(overrides, column)
        ELSE IF found(tableKey) THEN MapGet(overrides, tableKey)
        ELSE IF found(fullKey) THEN MapGet(overrides, fullKey)
        ELSE NoOverride

\* an entry counts for ?? unless it is null or undefined
resolveOverride(overrides, schema, table, column) ==
    LET fullKey  == schema \o "." \o table \o "." \o column
        tableKey == table \o "." \o column
        found(key) == MapHas(overrides, key) /\ MapGet(overrides, key).defined
    IN  IF found(fullKey) THEN MapGet(overrides, fullKey)
        ELSE IF found(tableKey) THEN MapGet(overrides, tableKey)
        ELSE IF found(column) THEN MapGet(overrides, column)
        ELSE NoOverride

\* index.ts lines 392-394: the pool's first values that are not null, each once
RECURSIVE DistinctFirstValues(_, _)
DistinctFirstValues(pool, i) ==
    IF i < 1 THEN <<>>
    ELSE IF pool[i][1] = NULL THEN DistinctFirstValues(pool, i - 1)
    ELSE SetAdd(DistinctFirstValues(pool, i - 1), pool[i][1])

\* index.ts lines 387-396: column -> values, for the foreign keys of one column
RECURSIVE FkColumnValues(_, _, _, _)
FkColumnValues(table, fkPools, f, map) ==
    IF f > Len(table.fks) THEN map
    ELSE IF Len(table.fks[f].columns) # 1 THEN FkColumnValues(table, fkPools, f + 1, map)
    ELSE FkColumnValues(table, fkPools, f + 1,
             MapSet(map, table.fks[f].columns[1],
                    DistinctFirstValues(PoolOf(fkPools, table.fks[f]),
                                        Len(PoolOf(fkPools, table.fks[f])))))

\* Mutant of CrossPairs: the pairs are not compared with the set.
CrossPairsUnfiltered(valuesA, valuesB, set) ==
    LET n == Len(valuesB)
    IN  [k \in 1..(Len(valuesA) * n) |->
            <<valuesA[((k - 1) \div n) + 1], valuesB[((k - 1) % n) + 1]>>]

\* index.ts lines 409-417: the pairs with a key that the set does not hold
CrossPairs(valuesA, valuesB, set) ==
    LET n   == Len(valuesB)
        all == [k \in 1..(Len(valuesA) * n) |->
                   <<valuesA[((k - 1) \div n) + 1], valuesB[((k - 1) % n) + 1]>>]
    IN  SelectSeq(all, LAMBDA pair :
            /\ buildUniqueKeyFromRow(pair, <<0, 1>>) # NoKey
            /\ buildUniqueKeyFromRow(pair, <<0, 1>>) \notin set)

\* the draws of one shuffle of n values: draws[i] is the j drawn for index i
ShuffleDraws(n) == {d \in [1..(n - 1) -> 0..(n - 1)] : \A i \in 1..(n - 1) : d[i] <= i}

\* index.ts lines 449-456, from index i (0-based) down to 1
RECURSIVE shuffleInPlace(_, _, _)
shuffleInPlace(values, i, draws) ==
    IF i <= 0 THEN values
    ELSE shuffleInPlace([values EXCEPT ![i + 1] = values[draws[i] + 1],
                                       ![draws[i] + 1] = values[i + 1]],
                        i - 1, draws)

\* index.ts lines 399-420 for one tracker: the trackers the call can leave
PairQueueChoices(constraint, fkColumnValues, maxPairs) ==
    IF Len(constraint.columns) # 2 THEN {constraint}
    ELSE IF ~MapHas(fkColumnValues, constraint.columns[1])
            \/ ~MapHas(fkColumnValues, constraint.columns[2]) THEN {constraint}
    ELSE LET valuesA == MapGet(fkColumnValues, constraint.columns[1])
             valuesB == MapGet(fkColumnValues, constraint.columns[2])
             total   == Len(valuesA) * Len(valuesB)
             pairs   == CrossPairs(valuesA, valuesB, constraint.set)
         IN  IF total = 0 \/ total > maxPairs THEN {constraint}
             ELSE {[constraint EXCEPT !.hasQueue = TRUE,
                                      !.pairQueue = shuffleInPlace(pairs, Len(pairs) - 1, d)]
                   : d \in ShuffleDraws(Len(pairs))}

RECURSIVE PairQueuesFrom(_, _, _, _)
PairQueuesFrom(constraints, i, fkColumnValues, maxPairs) ==
    IF i > Len(constraints) THEN {<<>>}
    ELSE {<<c>> \o rest :
              c \in PairQueueChoices(constraints[i], fkColumnValues, maxPairs),
              rest \in PairQueuesFrom(constraints, i + 1, fkColumnValues, maxPairs)}

\* index.ts lines 381-421: the tracker lists the call can leave, one per
\* outcome of the shuffles
buildUniquePairQueues(table, fkPools, constraints, target) ==
    PairQueuesFrom(constraints, 1, FkColumnValues(table, fkPools, 1, <<>>),
                   Max(PairFloor, target * PairFactor))

\* index.ts lines 184-189: column -> foreign key (its position in table.fks);
\* a later key replaces an earlier one on a column they share
RECURSIVE FkMap(_, _, _, _)
FkMap(table, f, c, map) ==
    IF f > Len(table.fks) THEN map
    ELSE IF c > Len(table.fks[f].columns) THEN FkMap(table, f + 1, 1, map)
    ELSE FkMap(table, f, c + 1, MapSet(map, table.fks[f].columns[c], f))

\* Mutant of TakePresets: the front pair is read but stays in the queue.
RECURSIVE TakePresetsKeep(_, _, _)
TakePresetsKeep(constraints, i, presetValues) ==
    IF i > Len(constraints) THEN [constraints |-> constraints, presetValues |-> presetValues]
    ELSE IF constraints[i].hasQueue /\ Len(constraints[i].pairQueue) > 0
    THEN TakePresetsKeep(constraints, i + 1,
                         MapSet(MapSet(presetValues, constraints[i].indices[1],
                                       constraints[i].pairQueue[1][1]),
                                constraints[i].indices[2], constraints[i].pairQueue[1][2]))
    ELSE TakePresetsKeep(constraints, i + 1, presetValues)

\* index.ts lines 194-203: [constraints, presetValues] after every non-empty
\* pair queue gave up its front pair
RECURSIVE TakePresets(_, _, _)
TakePresets(constraints, i, presetValues) ==
    IF i > Len(constraints) THEN [constraints |-> constraints, presetValues |-> presetValues]
    ELSE IF constraints[i].hasQueue /\ Len(constraints[i].pairQueue) > 0
    THEN TakePresets([constraints EXCEPT ![i].pairQueue = Tail(@)], i + 1,
                     MapSet(MapSet(presetValues, constraints[i].indices[1],
                                   constraints[i].pairQueue[1][1]),
                            constraints[i].indices[2], constraints[i].pairQueue[1][2]))
    ELSE TakePresets(constraints, i + 1, presetValues)

\* fkAssignments.get(fk) when the key's pool is empty
NoTuple == <<>>

\* index.ts lines 204-213: the assignments the sampling can make, one pool
\* tuple per foreign key
AssignmentChoices(table, fkPools) ==
    {a \in [1..Len(table.fks) ->
               {NoTuple} \cup UNION {Range(PoolOf(fkPools, table.fks[f])) : f \in 1..Len(table.fks)}] :
        \A f \in 1..Len(table.fks) :
            IF Len(PoolOf(fkPools, table.fks[f])) = 0 THEN a[f] = NoTuple
            ELSE a[f] \in Range(PoolOf(fkPools, table.fks[f]))}

\* index.ts lines 216-250 for one column (colIndex 0-based): the outcomes
\* [error, value, origin]
ColumnOutcomes(ctx, colIndex) ==
    LET column == ctx.insertColumns[colIndex + 1]
    IN  IF MapHas(ctx.presetValues, colIndex)
        THEN {[error |-> "", value |-> MapGet(ctx.presetValues, colIndex), origin |-> "preset",
               draw |-> ""]}
        ELSE IF MapHas(ctx.fkMap, column.name)
        THEN LET f == MapGet(ctx.fkMap, column.name)
             IN  IF ctx.fkAssignments[f] = NoTuple
                 THEN IF column.isNullable
                      THEN {[error |-> "", value |-> NULL, origin |-> "fk-empty", draw |-> ""]}
                      ELSE {[error |-> "Foreign key pool empty for " \o ctx.table.name \o "."
                                       \o column.name \o ". Ensure parent table "
                                       \o ctx.table.fks[f].refTable
                                       \o " has rows or relax nullability.",
                             value |-> NULL, origin |-> "fk-empty", draw |-> ""]}
                 ELSE {[error |-> "", origin |-> "fk", draw |-> "",
                        value |-> ctx.fkAssignments[f][IndexOf(ctx.table.fks[f].columns,
                                                               column.name) + 1]]}
        ELSE (IF column.isNullable
              THEN {[error |-> "", value |-> NULL, origin |-> "injected", draw |-> "null"]}
              ELSE {})
             \cup
             LET override == resolveOverride(ctx.overrides, ctx.table.schema, ctx.table.name,
                                             column.name)
                 made == generateValue(column, ctx.enums, override)
             IN  IF made.error # ""
                 THEN {[error |-> made.error, value |-> NULL, origin |-> "generated",
                        draw |-> ""]}
                 ELSE {[error |-> "", value |-> made.values[d], origin |-> "generated",
                        draw |-> ToString(d)] : d \in DOMAIN made.values}

\* index.ts lines 215-251: the outcomes [error, values, origins, draws] of the
\* column loop from colIndex on; an error ends the loop
RECURSIVE RowOutcomes(_, _)
RowOutcomes(ctx, colIndex) ==
    IF colIndex >= Len(ctx.insertColumns)
    THEN {[error |-> "", values |-> <<>>, origins |-> <<>>, draws |-> <<>>]}
    ELSE UNION {IF o.error # ""
                THEN {[error |-> o.error, values |-> <<>>, origins |-> <<>>,
                       draws |-> <<o.draw>>]}
                ELSE {[error |-> r.error, values |-> <<o.value>> \o r.values,
                       origins |-> <<o.origin>> \o r.origins,
                       draws |-> <<o.draw>> \o r.draws]
                      : r \in RowOutcomes(ctx, colIndex + 1)}
                : o \in ColumnOutcomes(ctx, colIndex)}

\* cli.ts line 84 and generate.ts lines 28-30: a run started with the seed of
\* the run before it makes that run's draws for as long as it asks for the
\* same ones
SeededDraws(key, fkAssignments, draws) ==
    (first.defined /\ Len(rowLog) < Len(first.rows)
     /\ first.rows[Len(rowLog) + 1].table = key) =>
        /\ first.rows[Len(rowLog) + 1].fkAssignments = fkAssignments
        /\ first.rows[Len(rowLog) + 1].draws = draws

\* index.ts lines 257-267: [conflict, pending]; pending holds [constraint, key]
\* with the constraint's position in the list
RECURSIVE CheckUnique(_, _, _, _)
CheckUnique(constraints, values, i, pending) ==
    IF i > Len(constraints) THEN [conflict |-> FALSE, pending |-> pending]
    ELSE LET key == buildUniqueKeyFromRow(values, constraints[i].indices)
         IN  IF key = NoKey THEN CheckUnique(constraints, values, i + 1, pending)
             ELSE IF key \in constraints[i].set
             THEN [conflict |-> TRUE, pending |-> pending]
             ELSE CheckUnique(constraints, values, i + 1,
                              Append(pending, [constraint |-> i, key |-> key]))

\* Mutant of ReservePending: only the first pending key is added.
ReserveFirstOnly(constraints, pending, i) ==
    IF Len(pending) = 0 THEN constraints
    ELSE [constraints EXCEPT ![pending[1].constraint].set = @ \cup {pending[1].key}]

\* index.ts lines 268-272
RECURSIVE ReservePending(_, _, _)
ReservePending(constraints, pending, i) ==
    IF i > Len(pending) THEN constraints
    ELSE ReservePending([constraints EXCEPT ![pending[i].constraint].set =
                                                @ \cup {pending[i].key}],
                        pending, i + 1)

\* Mutant of ConstraintNames: the first tracker's name only.
FirstConstraintName(uniqueConstraints) == uniqueConstraints[1].name

\* index.ts lines 276-278: constraintNames
ConstraintNames(uniqueConstraints) ==
    Join([k \in 1..Len(uniqueConstraints) |-> uniqueConstraints[k].name], ", ")

\* Mutant of Attempts: one attempt more for a table with trackers.
AttemptsOneMore(uniqueConstraints) ==
    IF Len(uniqueConstraints) > 0 THEN MaxAttempts + 1 ELSE 1

\* index.ts line 191
Attempts(uniqueConstraints) == IF Len(uniqueConstraints) > 0 THEN MaxAttempts ELSE 1

\* Mutant of Writes: a dry run writes too.
WritesAlways(cfg) == TRUE

\* index.ts lines 124 and 132: the inserts run unless the run is a dry run
Writes(cfg) == ~cfg.dryRun

\* Mutant of CatchStatement: the error path commits.
CatchStatementCommit == "COMMIT"

\* cli.ts line 123
CatchStatement == "ROLLBACK"

\* cli.ts lines 108-112
FinishStatement(cfg) == IF cfg.dryRun THEN "ROLLBACK" ELSE "COMMIT"

\* the session's rows after COMMIT or ROLLBACK
StorageAfter(statement, working, committed) ==
    IF statement = "ROLLBACK" THEN committed ELSE working

\* the rows that outlive the session after COMMIT or ROLLBACK
DurableAfter(statement, working, committed) ==
    IF statement = "COMMIT" THEN working ELSE committed

\* the table of the catalog that an introspected table describes
DeclaredTable(catalog, schema, name) ==
    SelectSeq(catalog.tables, LAMBDA t : t.schema = schema /\ t.name = name)[1]

-----------------------------------------------------------------------------
(* The dependency orderer on its own: every node list over SortNames and   *)
(* every edge Map of at most MaxEdges edges over SortNames and one name    *)
(* that is never a node.                                                   *)

MaxEdges == 3

SortNames == {"a", "b", "c"}

EdgeNames == SortNames \cup {"x"}

NodeLists == UNION {{s \in [1..n -> SortNames] : NoDup(s)} : n \in 0..Cardinality(SortNames)}

RECURSIVE EdgeCount(_, _)
EdgeCount(edges, i) ==
    IF i > Len(edges) THEN 0 ELSE Len(edges[i].val) + EdgeCount(edges, i + 1)

NoSortOut == [called |-> FALSE, ok |-> FALSE, result |-> <<>>, remaining |-> <<>>]

\* seedTable's locals before any table is seeded
EmptyCur ==
    [table |-> Table("", "", <<>>, <<>>, <<>>, <<>>), existing |-> 0, target |-> 0,
     fkPools |-> <<>>, insertColumns |-> <<>>, uniqueConstraints |-> <<>>, i |-> 0,
     batch |-> <<>>, attempt |-> 0, produced |-> <<>>, before |-> <<>>]

NoFirst == [defined |-> FALSE, exitCode |-> 0, summary |-> <<>>, rows |-> <<>>]

\* the process before main() runs, connected to catalog name with configuration c
Connected(name, c, at) ==
    /\ pc = at
    /\ db = name
    /\ rawConfig = c
    /\ config = c
    /\ storage = Catalog(name).rows
    /\ durable = Catalog(name).rows
    /\ txLog = <<>>
    /\ exitCode = 0
    /\ error = ""
    /\ summary = <<>>
    /\ fkPoolCache = <<>>
    /\ schemaIdx = 1
    /\ schemaEnums = <<>>
    /\ orderedTables = <<>>
    /\ tableIdx = 1
    /\ cur = EmptyCur
    /\ events = <<>>
    /\ first = NoFirst
    /\ now = StartTime
    /\ rowLog = <<>>

\* generateValue has not been called on its own
NoGenIn == [column |-> Col("", "", "", FALSE), enums |-> <<>>, override |-> NoOverride]

NoGenOut == [called |-> FALSE, error |-> "", value |-> NULL]

GenIdle == genIn = NoGenIn /\ genOut = NoGenOut

InitSort ==
    /\ GenIdle
    /\ sortIn \in {[nodes |-> n, edges |-> <<>>] : n \in NodeLists}
    /\ sortOut = NoSortOut
    /\ Connected("family", BaseConfig(0, FALSE), "idle")

SortAddEdge ==
    /\ ~sortOut.called
    /\ EdgeCount(sortIn.edges, 1) < MaxEdges
    /\ \E from \in EdgeNames, to \in EdgeNames :
          /\ ~(MapHas(sortIn.edges, from) /\ SeqHas(MapGet(sortIn.edges, from), to))
          /\ sortIn' = [sortIn EXCEPT !.edges = AddEdge(sortIn.edges, from, to)]
    /\ UNCHANGED sortOut
    /\ UNCHANGED <<runVars, genIn, genOut>>

SortCall ==
    /\ ~sortOut.called
    /\ sortOut' = [called |-> TRUE] @@ topologicalSort(sortIn.nodes, sortIn.edges)
    /\ UNCHANGED sortIn
    /\ UNCHANGED <<runVars, genIn, genOut>>

NextSort == SortAddEdge \/ SortCall

SpecSort == InitSort /\ [][NextSort]_vars

-----------------------------------------------------------------------------
(* cli.ts main() and index.ts runSeeder, seedTable, buildRowValues: a run  *)
(* of the seeder against one catalog                                       *)

Init ==
    /\ GenIdle
    /\ sortIn = [nodes |-> <<>>, edges |-> <<>>]
    /\ sortOut = NoSortOut
    /\ \E name \in CatalogNames : \E c \in Configs(name) : Connected(name, c, "cli")

\* cli.ts lines 66-77
CliConfig ==
    /\ pc = "cli"
    /\ config' = [rawConfig EXCEPT
                     !.maxRecords = IF @ > CliMaxRecords THEN CliMaxRecords ELSE @,
                     !.schema = IF @ = "" THEN "public" ELSE @,
                     !.schemas = IF Len(@) = 0
                                 THEN <<IF rawConfig.schema = "" THEN "public"
                                        ELSE rawConfig.schema>>
                                 ELSE @]
    /\ pc' = "begin"
    /\ UNCHANGED <<sortIn, sortOut, genIn, genOut, db, rawConfig, storage, durable, txLog, exitCode, error,
                   summary, fkPoolCache, schemaIdx, schemaEnums, orderedTables, tableIdx, cur,
                   events, first, now, rowLog>>

\* cli.ts lines 104-107 and index.ts lines 29-42
MainBegin ==
    /\ pc = "begin"
    /\ txLog' = Append(txLog, "BEGIN")
    /\ summary' = <<>>
    /\ fkPoolCache' = <<>>
    /\ schemaIdx' = 1
    /\ pc' = "schema"
    /\ UNCHANGED <<sortIn, sortOut, genIn, genOut, db, rawConfig, config, storage, durable, exitCode, error,
                   schemaEnums, orderedTables, tableIdx, cur, events, first, now, rowLog>>

\* throw: control passes to main()'s catch
Throw(message) ==
    /\ pc' = "catch"
    /\ error' = message
    /\ UNCHANGED <<summary, schemaIdx, tableIdx>>

\* index.ts lines 76-78 and the loops' next step: seedTable returned stats
Return(table, inserted, existing) ==
    /\ summary' = Append(summary, [schema |-> table.schema, table |-> table.name,
                                   inserted |-> inserted, existing |-> existing])
    /\ tableIdx' = tableIdx + 1
    /\ schemaIdx' = IF tableIdx + 1 > Len(orderedTables) THEN schemaIdx + 1 ELSE schemaIdx
    /\ pc' = IF tableIdx + 1 > Len(orderedTables) THEN "schema" ELSE "table"
    /\ UNCHANGED error

\* index.ts lines 44-73: one schema is loaded, filtered and ordered
RunSeederSchema ==
    /\ pc = "schema"
    /\ schemaIdx <= Len(config.schemas)
    /\ \E ccuReversed \in BOOLEAN :
          LET schema    == config.schemas[schemaIdx]
              allTables == introspectTables(Catalog(db), schema, ccuReversed)
              tables    == FilterTables(allTables.tables, config)
              names     == TableNameSet(tables, Len(tables))
              edges     == DependencyEdges(tables, 1, schema, names, <<>>)
              sorted    == topologicalSort(names, edges)
              ordered   == OrderedTables(tables, sorted.result)
          IN  /\ schemaEnums' = loadEnums(Catalog(db), schema, 1, <<>>)
              /\ IF allTables.error # ""
                 THEN /\ pc' = "catch"
                      /\ error' = allTables.error
                      /\ UNCHANGED <<orderedTables, tableIdx, schemaIdx>>
                 ELSE IF ~sorted.ok
                 THEN /\ pc' = "catch"
                      /\ error' = "Cycle detected in table dependencies. Cyclic tables: "
                                  \o Join(sorted.remaining, ", ")
                      /\ UNCHANGED <<orderedTables, tableIdx, schemaIdx>>
                 ELSE /\ orderedTables' = ordered
                      /\ tableIdx' = 1
                      /\ schemaIdx' = IF Len(ordered) = 0 THEN schemaIdx + 1 ELSE schemaIdx
                      /\ pc' = IF Len(ordered) = 0 THEN "schema" ELSE "table"
                      /\ UNCHANGED error
    /\ UNCHANGED <<sortIn, sortOut, genIn, genOut, db, rawConfig, config, storage, durable, txLog, exitCode,
                   summary, fkPoolCache, cur, events, first, now, rowLog>>

\* index.ts lines 84-132: seedTable up to its insert loops; byName tells
\* whether buildUniqueConstraintSets is handed the insert columns' names
\* (the String[] it declares) or, as line 119 does, the columns themselves
SeedTableStep(byName) ==
    /\ pc = "table"
    /\ LET table    == orderedTables[tableIdx]
           key      == TableKey(table.schema, table.name)
           existing == SelectCount(storage, key)
           target   == Target(config.maxRecords, existing)
           loaded   == loadForeignKeyPools(storage, table, 1, config.maxRecords,
                           [pools |-> <<>>, cache |-> fkPoolCache, queried |-> <<>>])
           failure  == validateForeignKeyPools(table, loaded.pools)
           insertColumns == InsertColumns(table)
           trackers == loadUniqueConstraintValues(storage, table,
                           buildUniqueConstraintSets(table,
                               IF byName THEN InsertColumnNames(insertColumns)
                               ELSE UniqueSetsArgument(insertColumns)))
       IN  \E uniqueConstraints \in
                  (IF target = 0 \/ failure # "" THEN {<<>>}
                   ELSE buildUniquePairQueues(table, loaded.pools, trackers, target)) :
              /\ cur' = [table |-> table, existing |-> existing, target |-> target,
                         fkPools |-> IF target = 0 THEN <<>> ELSE loaded.pools,
                         insertColumns |-> insertColumns,
                         uniqueConstraints |-> uniqueConstraints, i |-> 0, batch |-> <<>>,
                         attempt |-> 0, produced |-> <<>>, before |-> storage[key]]
              /\ fkPoolCache' = IF target = 0 THEN fkPoolCache ELSE loaded.cache
              /\ events' = IF target = 0 THEN events
                           ELSE Append(events, [kind |-> "load", table |-> key,
                                                queried |-> loaded.queried])
              /\ IF target = 0 THEN Return(table, 0, existing)
                 ELSE IF failure # "" THEN Throw(failure)
                 ELSE IF ~Writes(config) THEN Return(table, target, existing)
                 ELSE /\ pc' = IF Len(insertColumns) = 0 THEN "defaults" ELSE "rows"
                      /\ UNCHANGED <<error, summary, schemaIdx, tableIdx>>
    /\ UNCHANGED <<sortIn, sortOut, genIn, genOut, db, rawConfig, config, storage, durable, txLog, exitCode,
                   schemaEnums, orderedTables, first, now, rowLog>>

\* index.ts lines 84-132, line 119 as written
SeedTable == SeedTableStep(FALSE)

\* index.ts lines 123-129: one `insert ... default values`
InsertDefault ==
    /\ pc = "defaults"
    /\ LET key == TableKey(cur.table.schema, cur.table.name)
           done == InsertRows(storage, Catalog(db).tables,
                              DeclaredTable(Catalog(db), cur.table.schema, cur.table.name),
                              <<>>, <<(<<>>)>>, storage[key])
       IN  IF done.error # ""
           THEN /\ Throw(done.error)
                /\ UNCHANGED <<storage, events, cur>>
           ELSE /\ storage' = [storage EXCEPT ![key] = done.rows]
                /\ events' = Append(events, [kind |-> "insert", table |-> key, queried |-> <<>>])
                /\ cur' = [cur EXCEPT !.i = @ + 1]
                /\ IF cur.i + 1 < cur.target
                   THEN UNCHANGED <<pc, error, summary, schemaIdx, tableIdx>>
                   ELSE Return(cur.table, cur.target, cur.existing)
    /\ UNCHANGED <<sortIn, sortOut, genIn, genOut, db, rawConfig, config, durable, txLog, exitCode,
                   fkPoolCache, schemaEnums, orderedTables, first, now, rowLog>>

\* index.ts lines 139-147 and 176-282: one attempt of buildRowValues for the
\* next row of the batch
BuildRow ==
    /\ pc = "rows"
    /\ LET taken == TakePresets(cur.uniqueConstraints, 1, <<>>)
       IN  \E fkAssignments \in AssignmentChoices(cur.table, cur.fkPools) :
           \E row \in RowOutcomes([table |-> cur.table, insertColumns |-> cur.insertColumns,
                                   presetValues |-> taken.presetValues,
                                   fkMap |-> FkMap(cur.table, 1, 1, <<>>),
                                   fkAssignments |-> fkAssignments, enums |-> schemaEnums,
                                   overrides |-> config.overrides], 0) :
              LET checked == CheckUnique(taken.constraints, row.values, 1, <<>>)
                  batchCount == Min(BatchSize, cur.target - cur.i)
                  key == TableKey(cur.table.schema, cur.table.name)
              IN  /\ SeededDraws(key, fkAssignments, row.draws)
                  /\ rowLog' = Append(rowLog, [table |-> key, error |-> row.error,
                                               values |-> row.values, draws |-> row.draws,
                                               fkAssignments |-> fkAssignments])
                  /\ IF row.error # ""
                     THEN /\ Throw(row.error)
                          /\ cur' = [cur EXCEPT !.uniqueConstraints = taken.constraints]
                     ELSE IF ~checked.conflict
                     THEN /\ cur' = [cur EXCEPT
                                 !.uniqueConstraints =
                                     ReservePending(taken.constraints, checked.pending, 1),
                                 !.batch = Append(@, row.values),
                                 !.produced = Append(@, [values |-> row.values,
                                                         origins |-> row.origins,
                                                         fkAssignments |-> fkAssignments]),
                                 !.attempt = 0]
                          /\ pc' = IF Len(cur.batch) + 1 = batchCount THEN "insert" ELSE "rows"
                          /\ UNCHANGED <<error, summary, schemaIdx, tableIdx>>
                     ELSE IF cur.attempt + 1 < Attempts(cur.uniqueConstraints)
                     THEN /\ cur' = [cur EXCEPT !.uniqueConstraints = taken.constraints,
                                                !.attempt = @ + 1]
                          /\ UNCHANGED <<pc, error, summary, schemaIdx, tableIdx>>
                     ELSE /\ Throw("Unable to generate unique values for "
                                   \o cur.table.schema \o "." \o cur.table.name
                                   \o ". Constraints: "
                                   \o ConstraintNames(cur.uniqueConstraints))
                          /\ cur' = [cur EXCEPT !.uniqueConstraints = taken.constraints]
    /\ UNCHANGED <<sortIn, sortOut, genIn, genOut, db, rawConfig, config, storage, durable, txLog, exitCode,
                   fkPoolCache, schemaEnums, orderedTables, events, first, now>>

\* index.ts lines 156-164: the batch's insert statement
InsertBatch ==
    /\ pc = "insert"
    /\ LET key == TableKey(cur.table.schema, cur.table.name)
           done == InsertRows(storage, Catalog(db).tables,
                              DeclaredTable(Catalog(db), cur.table.schema, cur.table.name),
                              ColumnNames(cur.insertColumns), cur.batch, storage[key])
       IN  IF done.error # ""
           THEN /\ Throw(done.error)
                /\ UNCHANGED <<storage, events, cur>>
           ELSE /\ storage' = [storage EXCEPT ![key] = done.rows]
                /\ events' = Append(events, [kind |-> "insert", table |-> key, queried |-> <<>>])
                /\ cur' = [cur EXCEPT !.i = @ + BatchSize, !.batch = <<>>]
                /\ IF cur.i + BatchSize < cur.target
                   THEN /\ pc' = "rows"
                        /\ UNCHANGED <<error, summary, schemaIdx, tableIdx>>
                   ELSE Return(cur.table, cur.target, cur.existing)
    /\ UNCHANGED <<sortIn, sortOut, genIn, genOut, db, rawConfig, config, durable, txLog, exitCode,
                   fkPoolCache, schemaEnums, orderedTables, first, now, rowLog>>

\* cli.ts lines 108-120: runSeeder returned
MainFinish ==
    /\ pc = "schema"
    /\ schemaIdx > Len(config.schemas)
    /\ txLog' = Append(txLog, FinishStatement(config))
    /\ storage' = StorageAfter(FinishStatement(config), storage, durable)
    /\ durable' = DurableAfter(FinishStatement(config), storage, durable)
    /\ pc' = "done"
    /\ UNCHANGED <<sortIn, sortOut, genIn, genOut, db, rawConfig, config, exitCode, error, summary,
                   fkPoolCache, schemaIdx, schemaEnums, orderedTables, tableIdx, cur, events, first, now, rowLog>>

\* cli.ts lines 121-124: the catch block
MainCatch ==
    /\ pc = "catch"
    /\ txLog' = Append(txLog, CatchStatement)
    /\ storage' = StorageAfter(CatchStatement, storage, durable)
    /\ durable' = DurableAfter(CatchStatement, storage, durable)
    /\ exitCode' = 1
    /\ pc' = "done"
    /\ UNCHANGED <<sortIn, sortOut, genIn, genOut, db, rawConfig, config, error, summary, fkPoolCache,
                   schemaIdx, schemaEnums, orderedTables, tableIdx, cur, events, first, now, rowLog>>

Next ==
    \/ CliConfig
    \/ MainBegin
    \/ RunSeederSchema
    \/ SeedTable
    \/ InsertDefault
    \/ BuildRow
    \/ InsertBatch
    \/ MainFinish
    \/ MainCatch

Spec == Init /\ [][Next]_vars

-----------------------------------------------------------------------------
(* A run that writes, followed by a dry run of the same configuration on   *)
(* the same initial rows                                                   *)

InitDry ==
    /\ GenIdle
    /\ sortIn = [nodes |-> <<>>, edges |-> <<>>]
    /\ sortOut = NoSortOut
    /\ \E name \in CatalogNames :
          \E c \in {k \in Configs(name) : ~k.dryRun} : Connected(name, c, "cli")

\* the process is started again with --dry-run on the rows the first run found
Rerun ==
    /\ pc = "done"
    /\ ~first.defined
    /\ ~rawConfig.dryRun
    /\ first' = [defined |-> TRUE, exitCode |-> exitCode, summary |-> summary, rows |-> rowLog]
    /\ rawConfig' = [rawConfig EXCEPT !.dryRun = TRUE]
    /\ config' = [rawConfig EXCEPT !.dryRun = TRUE]
    /\ storage' = Catalog(db).rows
    /\ durable' = Catalog(db).rows
    /\ txLog' = <<>>
    /\ exitCode' = 0
    /\ error' = ""
    /\ summary' = <<>>
    /\ fkPoolCache' = <<>>
    /\ schemaIdx' = 1
    /\ schemaEnums' = <<>>
    /\ orderedTables' = <<>>
    /\ tableIdx' = 1
    /\ cur' = EmptyCur
    /\ events' = <<>>
    /\ rowLog' = <<>>
    /\ pc' = "cli"
    /\ UNCHANGED <<sortIn, sortOut, genIn, genOut, db, now>>

NextDry == Next \/ Rerun

SpecDry == InitDry /\ [][NextDry]_vars

-----------------------------------------------------------------------------
(* Two independent runs of the same configuration, with the same seed, on  *)
(* the same initial rows; the second may start later                       *)

\* the process is started again with the same arguments on the rows the
\* first run found
RunAgain ==
    /\ pc = "done"
    /\ ~first.defined
    /\ first' = [defined |-> TRUE, exitCode |-> exitCode, summary |-> summary, rows |-> rowLog]
    /\ now' \in {StartTime, LaterTime}
    /\ config' = rawConfig
    /\ storage' = Catalog(db).rows
    /\ durable' = Catalog(db).rows
    /\ txLog' = <<>>
    /\ exitCode' = 0
    /\ error' = ""
    /\ summary' = <<>>
    /\ fkPoolCache' = <<>>
    /\ schemaIdx' = 1
    /\ schemaEnums' = <<>>
    /\ orderedTables' = <<>>
    /\ tableIdx' = 1
    /\ cur' = EmptyCur
    /\ events' = <<>>
    /\ rowLog' = <<>>
    /\ pc' = "cli"
    /\ UNCHANGED <<sortIn, sortOut, genIn, genOut, db, rawConfig>>

NextTwice == Next \/ RunAgain

SpecTwice == Init /\ [][NextTwice]_vars

-----------------------------------------------------------------------------
(* The value producer on its own: generateValue is called once, without   *)
(* an override, for a column whose name, type, length, precision and scale *)
(* are drawn from small sets.                                              *)

MaxPrecision == 3

GenNames == {"qty", "org_id", "email", "title", "opens"}

\* [dataType, udtName] as information_schema reports them
GenTypes ==
    {<<"integer", "int4">>, <<"bigint", "int8">>, <<"smallint", "int2">>,
     <<"boolean", "bool">>, <<"uuid", "uuid">>, <<"text", "text">>,
     <<"character varying", "varchar">>, <<"real", "float4">>,
     <<"double precision", "float8">>, <<"date", "date">>,
     <<"timestamp with time zone", "timestamptz">>,
     <<"time without time zone", "time">>, <<"jsonb", "jsonb">>, <<"bytea", "bytea">>,
     <<"ARRAY", "_int4">>, <<"ARRAY", "_text">>}

GenColumns ==
    {Col(n, t[1], t[2], FALSE) : n \in GenNames, t \in GenTypes}
    \cup {[Col(n, "character varying", "varchar", FALSE) EXCEPT !.maxLength = 3] : n \in GenNames}
    \cup {[Col(n, "numeric", "numeric", FALSE) EXCEPT !.numericPrecision = p,
                                                       !.numericScale = sc]
           : n \in GenNames, p \in 1..MaxPrecision, sc \in 0..MaxPrecision}
    \cup {Col(n, "numeric", "numeric", FALSE) : n \in GenNames}

InitGen ==
    /\ genIn \in {[column |-> c, enums |-> <<>>, override |-> NoOverride] : c \in GenColumns}
    /\ genOut = NoGenOut
    /\ sortIn = [nodes |-> <<>>, edges |-> <<>>]
    /\ sortOut = NoSortOut
    /\ Connected("family", BaseConfig(0, FALSE), "idle")

GenCall ==
    /\ ~genOut.called
    /\ LET made == generateValue(genIn.column, genIn.enums, genIn.override)
       IN  IF made.error # ""
           THEN genOut' = [called |-> TRUE, error |-> made.error, value |-> NULL]
           ELSE \E d \in DOMAIN made.values :
                   genOut' = [called |-> TRUE, error |-> "", value |-> made.values[d]]
    /\ UNCHANGED <<genIn, sortVars, runVars>>

NextGen == GenCall

SpecGen == InitGen /\ [][NextGen]_vars

-----------------------------------------------------------------------------
(* buildUniqueConstraintSets, loadUniqueConstraintValues,                  *)
(* buildUniquePairQueues and buildRowValues with trackers: a run in which  *)
(* buildUniqueConstraintSets is called with the names of the insert        *)
(* columns, the String[] its signature declares                            *)

TrackedNames ==
    {"accounts", "codes", "library", "links", "seats", "routes", "picks", "memos", "pairs"}

\* one table of the catalog seeded alone, with overrides
Only(maxRecords, table, overrides) ==
    [BaseConfig(maxRecords, FALSE) EXCEPT !.includeTables = <<table>>,
                                          !.overrides = overrides]

TrackedConfigs(name) ==
    CASE name = "accounts" ->
            {Only(2, "accounts",
                  <<[key |-> "email", val |-> Override("", <<Str("email1")>>)]>>),
             Only(2, "accounts",
                  <<[key |-> "email", val |-> Override("", <<Str("email1"), Str("b")>>)]>>),
             BaseConfig(1, TRUE)}
      [] name = "codes" -> {BaseConfig(2, FALSE), BaseConfig(3, FALSE)}
      [] name = "links" ->
            {Only(m, "links", <<>>) : m \in 1..4} \cup {BaseConfig(1, FALSE)}
      [] name = "library" -> {BaseConfig(1, FALSE)}
      [] name = "pairs" -> {Only(2, "pairs", <<>>)}
      [] name = "seats" ->
            {Only(2, "seats",
                  <<[key |-> "tag", val |-> Override("", <<Str("x")>>)]>>),
             Only(2, "seats",
                  <<[key |-> "tag", val |-> Override("", <<Str("x"), Str("y")>>)]>>)}
      [] name = "routes" -> {Only(m, "routes", <<>>) : m \in 1..2}
      [] name = "picks" -> {Only(1, "picks", <<>>)}
      [] name = "memos" -> {Only(m, "memos", <<>>) : m \in 1..2}

InitTrack ==
    /\ GenIdle
    /\ sortIn = [nodes |-> <<>>, edges |-> <<>>]
    /\ sortOut = NoSortOut
    /\ \E name \in TrackedNames : \E c \in TrackedConfigs(name) : Connected(name, c, "cli")

\* index.ts lines 84-132 with the names handed to buildUniqueConstraintSets
SeedTableNames == SeedTableStep(TRUE)

NextTrack ==
    \/ CliConfig
    \/ MainBegin
    \/ RunSeederSchema
    \/ SeedTableNames
    \/ InsertDefault
    \/ BuildRow
    \/ InsertBatch
    \/ MainFinish
    \/ MainCatch

SpecTrack == InitTrack /\ [][NextTrack]_vars

-----------------------------------------------------------------------------
(* What the claims about the orderer speak of                              *)

\* parent -> child is an edge of the Map with both ends among the nodes
SortEdge(p, c) ==
    /\ SeqHas(sortIn.nodes, p) /\ SeqHas(sortIn.nodes, c)
    /\ MapHas(sortIn.edges, p) /\ SeqHas(MapGet(sortIn.edges, p), c)

\* c is reached from p by a path of at least one edge, of at most k edges
RECURSIVE SortPath(_, _, _)
SortPath(p, c, k) ==
    /\ k > 0
    /\ \/ SortEdge(p, c)
       \/ \E m \in Range(sortIn.nodes) : SortEdge(p, m) /\ SortPath(m, c, k - 1)

SortReaches(p, c) == SortPath(p, c, Len(sortIn.nodes))

OnCycle(n) == SortReaches(n, n)

SortAcyclic == \A n \in Range(sortIn.nodes) : ~OnCycle(n)

\* n lies on a cycle or depends, directly or transitively, on a table that does
BehindCycle(n) == OnCycle(n) \/ \E m \in Range(sortIn.nodes) : OnCycle(m) /\ SortReaches(m, n)

Position(s, x) == IndexOf(s, x)

\* C1: on an acyclic input topologicalSort returns every node exactly once,
\* each parent before each of its children; edges with an end outside the
\* nodes are ignored.
C1_SortOrdersAcyclic ==
    (sortOut.called /\ SortAcyclic) =>
        /\ sortOut.ok
        /\ Len(sortOut.result) = Len(sortIn.nodes)
        /\ NoDup(sortOut.result)
        /\ Range(sortOut.result) = Range(sortIn.nodes)
        /\ \A p, c \in Range(sortIn.nodes) :
              SortEdge(p, c) => Position(sortOut.result, p) < Position(sortOut.result, c)

\* C1 witness: three nodes, two edges among them and one edge leaving the
\* nodes, sorted into an order that differs from the input's.
C1_Witness ==
    /\ sortOut.called /\ SortAcyclic /\ sortOut.ok
    /\ Len(sortIn.nodes) = 3
    /\ sortOut.result # sortIn.nodes
    /\ \E p, c, d \in Range(sortIn.nodes) : p # c /\ c # d /\ SortEdge(p, c) /\ SortEdge(c, d)

\* the rows the run found in storage
InitialRows == Catalog(db).rows

\* the declared table stored under key
TableAt(key) == SelectSeq(Catalog(db).tables, LAMBDA t : TableKey(t.schema, t.name) = key)[1]

\* the table under child has a declared foreign key into the other table under parent
References(child, parent) ==
    /\ child # parent
    /\ \E f \in 1..Len(TableAt(child).fks) :
          TableKey(TableAt(child).fks[f].refSchema, TableAt(child).fks[f].refTable) = parent

SameSchema(child, parent) == TableAt(child).schema = TableAt(parent).schema

\* an insert into parent happens after child's pools were loaded or after an
\* insert into child
ParentInsertedLate(child, parent) ==
    \E i, j \in 1..Len(events) :
        /\ i < j
        /\ events[i].table = child
        /\ events[j].table = parent /\ events[j].kind = "insert"

ValueAt(values, column) == values[IndexOf(ColumnNames(cur.insertColumns), column) + 1]

\* C3: every produced row holds, at the columns of every foreign key with a
\* pool that is not empty, the values of one single tuple of that pool, in the
\* key's column order (composite keys and keys sharing a column included).
C3_FkTupleFromPool ==
    \A r \in 1..Len(cur.produced), f \in 1..Len(cur.table.fks) :
        Len(PoolOf(cur.fkPools, cur.table.fks[f])) > 0 =>
            \E tuple \in Range(PoolOf(cur.fkPools, cur.table.fks[f])) :
                \A k \in 1..Len(cur.table.fks[f].columns) :
                    ValueAt(cur.produced[r].values, cur.table.fks[f].columns[k]) = tuple[k]

\* a run that completed successfully
Completed == pc = "done" /\ exitCode = 0

\* no two rows agree on columns where the first holds no null
NoDuplicateKey(rows, columns) ==
    \A i, j \in 1..Len(rows) :
        (i < j /\ AllNonNull(Project(rows[i], columns)))
            => Project(rows[i], columns) # Project(rows[j], columns)

PkInserted ==
    /\ Len(cur.table.pkColumns) > 0
    /\ \A c \in Range(cur.table.pkColumns) : SeqHas(ColumnNames(cur.insertColumns), c)

PkOf(values) == [k \in 1..Len(cur.table.pkColumns) |-> ValueAt(values, cur.table.pkColumns[k])]

\* C5: no synthesized row has the primary key of a row the table held before
\* or of another row synthesized for the table in the run.
C5_PrimaryKeysFresh ==
    PkInserted =>
        /\ \A r \in 1..Len(cur.produced), b \in 1..Len(cur.before) :
              PkOf(cur.produced[r].values) # Project(cur.before[b], cur.table.pkColumns)
        /\ \A r, q \in 1..Len(cur.produced) :
              r < q => PkOf(cur.produced[r].values) # PkOf(cur.produced[q].values)

\* C6: no produced row holds null in a column that is not nullable, whatever
\* produced the value; the random null is given only to nullable columns that
\* are neither pre-assigned nor part of a foreign key.
C6_NoNullInNotNull ==
    \A r \in 1..Len(cur.produced), c \in 1..Len(cur.insertColumns) :
        /\ ~cur.insertColumns[c].isNullable => cur.produced[r].values[c] # NULL
        /\ cur.produced[r].origins[c] = "injected" =>
              /\ cur.insertColumns[c].isNullable
              /\ cur.insertColumns[c].name \notin FkColumns(cur.table)

\* the rows the summary's entries before position k report as inserted into
\* the table of entry k
RECURSIVE InsertedBefore(_, _, _)
InsertedBefore(entries, k, j) ==
    IF j >= k THEN 0
    ELSE (IF entries[j].schema = entries[k].schema /\ entries[j].table = entries[k].table
          THEN entries[j].inserted ELSE 0) + InsertedBefore(entries, k, j + 1)

\* C7: in a successful run that writes, every seeded table received
\* max(0, M - existing) rows, M being maxRecords capped at 50 and existing
\* the count when its seeding began; the rows it held are still there,
\* unchanged, and the summary reports the same two numbers.
C7_InsertsTheMissingRows ==
    (Completed /\ ~config.dryRun) =>
        \A k \in 1..Len(summary) :
            LET e   == summary[k]
                key == TableKey(e.schema, e.table)
                m   == IF rawConfig.maxRecords > 50 THEN 50 ELSE rawConfig.maxRecords
            IN  /\ e.existing = Len(InitialRows[key]) + InsertedBefore(summary, k, 1)
                /\ e.inserted = (IF m - e.existing > 0 THEN m - e.existing ELSE 0)
                /\ Len(durable[key]) >= e.existing + e.inserted
                /\ (\A j \in (k + 1)..Len(summary) :
                        ~(summary[j].schema = e.schema /\ summary[j].table = e.table))
                       => Len(durable[key]) = e.existing + e.inserted
                /\ SubSeq(durable[key], 1, Len(InitialRows[key])) = InitialRows[key]
                /\ storage[key] = durable[key]

\* C7 witness: a successful run with maxRecords above the cap that added the
\* two rows a table of 48 rows was missing.
C7_Witness ==
    /\ Completed /\ ~config.dryRun
    /\ rawConfig.maxRecords > 50
    /\ \E e \in Range(summary) :
          /\ e.existing = 48 /\ e.inserted = 2
          /\ Len(durable[TableKey(e.schema, e.table)]) = 50

\* the inserted counts a summary reports, table by table
InsertedCounts(entries) ==
    [k \in 1..Len(entries) |-> <<entries[k].schema, entries[k].table, entries[k].inserted>>]

RowCounts(store) == [key \in DOMAIN store |-> Len(store[key])]

\* C8 as stated: the dry run ends with every count unchanged, completes
\* whenever the run that writes completes, and reports the same inserted counts.
C8_Original ==
    (pc = "done" /\ first.defined) =>
        /\ RowCounts(storage) = RowCounts(InitialRows)
        /\ RowCounts(durable) = RowCounts(InitialRows)
        /\ first.exitCode = 0 =>
              /\ exitCode = 0
              /\ InsertedCounts(summary) = InsertedCounts(first.summary)

\* C8 amended: a dry run issues no insert, so every count is unchanged all
\* along; when it completes, the run that writes completed and no schema is
\* listed twice, both report the same inserted counts.
C8_DryRunPreview ==
    (first.defined /\ config.dryRun) =>
        /\ RowCounts(storage) = RowCounts(InitialRows)
        /\ RowCounts(durable) = RowCounts(InitialRows)
        /\ (pc = "done" /\ exitCode = 0 /\ first.exitCode = 0 /\ NoDup(config.schemas))
              => InsertedCounts(summary) = InsertedCounts(first.summary)

\* C8 witness: both runs completed and both report rows inserted into a
\* table that held rows.
C8_Witness ==
    /\ pc = "done" /\ first.defined /\ config.dryRun
    /\ exitCode = 0 /\ first.exitCode = 0
    /\ \E k \in 1..Len(summary) :
          /\ summary[k].inserted > 0 /\ summary[k].existing > 0
          /\ first.summary[k].inserted = summary[k].inserted

Issued(statement) == Len(SelectSeq(txLog, LAMBDA x : x = statement))

\* C9: once an error is raised COMMIT is never issued; the run then ends with
\* ROLLBACK, a non-zero exit code and the rows storage held before it; every
\* run ends with exactly one of COMMIT and ROLLBACK, COMMIT only in a run
\* that writes and raised no error.
C9_ErrorRollsBack ==
    /\ error # "" => Issued("COMMIT") = 0
    /\ pc = "done" =>
          /\ error # "" =>
                /\ Issued("ROLLBACK") = 1
                /\ exitCode # 0
                /\ storage = InitialRows
                /\ durable = InitialRows
          /\ Issued("COMMIT") + Issued("ROLLBACK") = 1
          /\ Issued("BEGIN") = 1
          /\ Issued("COMMIT") = 1 => (~config.dryRun /\ error = "")

\* C9 witness: a run that inserted rows, then raised an error, ended.
C9_Witness ==
    /\ pc = "done" /\ error # ""
    /\ \E i \in 1..Len(events) : events[i].kind = "insert"
    /\ storage = InitialRows

\* the declared tables of a schema that pass the include and exclude lists
SeedSet(schema) ==
    {t \in Range(Catalog(db).tables) :
        /\ t.schema = schema
        /\ (Len(config.includeTables) = 0
            \/ t.name \in Range(config.includeTables)
            \/ TableKey(t.schema, t.name) \in Range(config.includeTables))
        /\ t.name \notin Range(config.excludeTables)
        /\ TableKey(t.schema, t.name) \notin Range(config.excludeTables)}

\* child has a foreign key into parent
FkInto(child, parent) ==
    \E f \in 1..Len(child.fks) :
        child.fks[f].refSchema = parent.schema /\ child.fks[f].refTable = parent.name

\* a chain of at most k foreign keys inside the set leads from t to u
RECURSIVE FkChain(_, _, _, _)
FkChain(set, t, u, k) ==
    /\ k > 0
    /\ \/ FkInto(t, u)
       \/ \E m \in set : FkInto(t, m) /\ FkChain(set, m, u, k - 1)

CyclicSchema(schema) ==
    \E t \in SeedSet(schema) : FkChain(SeedSet(schema), t, t, Cardinality(SeedSet(schema)))

ReservedSchema(schema) == schema \in {"pg_catalog", "information_schema"}

\* position k holds the first schema of the run that is reserved or cyclic
FirstRefused(k) ==
    /\ k \in 1..Len(config.schemas)
    /\ ReservedSchema(config.schemas[k]) \/ CyclicSchema(config.schemas[k])
    /\ \A j \in 1..(k - 1) :
          ~(ReservedSchema(config.schemas[j]) \/ CyclicSchema(config.schemas[j]))

StartsWith(text, prefix) ==
    Len(text) >= Len(prefix) /\ SubSeq(text, 1, Len(prefix)) = prefix

\* C11: a schema that is reserved or whose seed set is cyclic raises its
\* error before any table of it is seeded: no insert is issued for it, and
\* neither it nor a later schema appears in the summary.
C11_RefusedBeforeSeeding ==
    \A k \in 1..Len(config.schemas) :
        (pc # "cli" /\ FirstRefused(k)) =>
            /\ schemaIdx <= k
            /\ schemaIdx = k => pc \in {"begin", "schema", "catch", "done"}
            /\ (schemaIdx = k /\ pc \in {"catch", "done"}) =>
                  IF ReservedSchema(config.schemas[k])
                  THEN StartsWith(error, "Refusing to introspect system schema")
                  ELSE StartsWith(error, "Cycle detected in table dependencies")
            /\ \A e \in Range(summary) :
                  \A j \in k..Len(config.schemas) : e.schema # config.schemas[j]
            /\ \A i \in 1..Len(events) :
                  events[i].kind = "insert" => TableAt(events[i].table).schema # config.schemas[k]

\* C11 witness: a run seeded one schema, then met a cyclic one and ended with
\* the cycle error.
C11_Witness ==
    /\ pc = "done"
    /\ FirstRefused(2) /\ CyclicSchema(config.schemas[2])
    /\ StartsWith(error, "Cycle detected in table dependencies")
    /\ \E i \in 1..Len(events) : events[i].kind = "insert"
    /\ Len(summary) > 0

\* the second of two runs has ended
BothRunsDone == first.defined /\ pc = "done"

\* the rows a run produced: table by table, row by row, value by value
ProducedRows(history) ==
    [i \in 1..Len(history) |-> [table |-> history[i].table, values |-> history[i].values]]

\* the random choices a run made, in order
ChoicesMade(history) ==
    [i \in 1..Len(history) |-> [fkAssignments |-> history[i].fkAssignments,
                                draws |-> history[i].draws]]

\* C12: two runs with the same seed, the same rows in storage and the same
\* configuration make the same random choices and produce the same rows.
C12_SameSeedSameRows ==
    BothRunsDone =>
        /\ ChoicesMade(rowLog) = ChoicesMade(first.rows)
        /\ ProducedRows(rowLog) = ProducedRows(first.rows)

\* some foreign key of the table has an empty pool and a column that is not
\* nullable
RequiredPoolEmpty(table, fkPools) ==
    \E f \in 1..Len(table.fks) :
        /\ PoolOf(fkPools, table.fks[f]) = <<>>
        /\ \E c \in Range(table.fks[f].columns), i \in 1..Len(table.columns) :
              table.columns[i].name = c /\ ~table.columns[i].isNullable

\* C13: a table that misses rows and has an empty pool behind a foreign key
\* with a non-nullable column fails with the empty-pool error of the pool
\* check: no row was synthesized for it, no uniqueness set is held for it and
\* no insert into it was issued.
C13_EmptyPoolFailsFirst ==
    (cur.target > 0 /\ RequiredPoolEmpty(cur.table, cur.fkPools)) =>
        LET key == TableKey(cur.table.schema, cur.table.name)
        IN  /\ pc \in {"catch", "done"}
            /\ StartsWith(error, "Foreign key pool empty for " \o key \o " -> ")
            /\ exitCode = IF pc = "done" THEN 1 ELSE 0
            /\ cur.produced = <<>> /\ cur.batch = <<>>
            /\ cur.uniqueConstraints = <<>>
            /\ \A r \in 1..Len(rowLog) : rowLog[r].table # key
            /\ \A e \in 1..Len(events) : events[e].kind = "insert" => events[e].table # key
            /\ \A e \in Range(summary) : TableKey(e.schema, e.table) # key

\* C13 witness: a run reported a parent table and then met a table whose pool
\* is empty behind a required foreign key.
C13_Witness ==
    /\ pc = "done"
    /\ cur.target > 0 /\ RequiredPoolEmpty(cur.table, cur.fkPools)
    /\ Len(cur.fkPools) > 0
    /\ Len(summary) > 0

\* the candidate values the configuration's override gives a column of the
\* table being seeded
Candidates(column) ==
    LET keys == {TableKey(cur.table.schema, cur.table.name) \o "." \o column,
                 cur.table.name \o "." \o column, column}
    IN  UNION {Range(config.overrides[i].val.values) :
                  i \in {j \in 1..Len(config.overrides) : config.overrides[j].key \in keys}}

\* the candidates of the column that no row of the table held before seeding
FreshCandidates(column) ==
    {v \in Candidates(column) : \A b \in 1..Len(cur.before) : cur.before[b][column] # v}

\* the table being seeded has a unique constraint on one inserted column
\* that is not nullable and has candidate values, and misses more rows than
\* there are fresh candidates
ExhaustedColumn(column) ==
    /\ \E u \in 1..Len(cur.table.uniqueConstraints) :
          cur.table.uniqueConstraints[u].columns = <<column>>
    /\ \E i \in 1..Len(cur.insertColumns) :
          cur.insertColumns[i].name = column /\ ~cur.insertColumns[i].isNullable
    /\ Candidates(column) # {}
    /\ cur.target > Cardinality(FreshCandidates(column))

\* C14: when a unique column's candidate values run out, seeding the table
\* does not complete: it fails with the error of the exhausted retry bound,
\* and at most as many rows as there are candidates were synthesized.
C14_ExhaustedCandidatesFail ==
    \A column \in {"email"} :
        (NoDup(config.schemas) /\ ExhaustedColumn(column)) =>
            /\ \A e \in Range(summary) : e.table # cur.table.name
            /\ pc \in {"rows", "catch", "done"}
            /\ pc \in {"catch", "done"} => StartsWith(error, "Unable to generate unique values")
            /\ Len(cur.produced) <= Cardinality(Candidates(column))

\* the distinct non-null values of the pool behind the single-column foreign
\* key on `column` of the table being seeded
PoolValues(column) ==
    UNION {{t[1] : t \in Range(PoolOf(cur.fkPools, cur.table.fks[f]))} \ {NULL} :
              f \in {g \in 1..Len(cur.table.fks) : cur.table.fks[g].columns = <<column>>}}

\* the table being seeded is empty, its only unique constraint covers the
\* two foreign-key columns a and b, and it misses one row per pair of pool
\* values
MissesEveryPair(a, b) ==
    /\ Len(cur.table.uniqueConstraints) = 1
    /\ cur.table.uniqueConstraints[1].columns = <<a, b>>
    /\ {a, b} \subseteq Range(ColumnNames(cur.insertColumns))
    /\ PoolValues(a) # {} /\ PoolValues(b) # {}
    /\ cur.before = <<>>
    /\ cur.target = Cardinality(PoolValues(a)) * Cardinality(PoolValues(b))
    /\ cur.target <= Max(PairFloor, PairFactor * cur.target)

\* C15: a table that misses exactly one row per pair of pool values is
\* seeded with success: no attempt is rejected, no error is raised, the rows
\* inserted carry every pair once, and no pair is left in the queue.
C15_EveryPairOnce ==
    (~config.dryRun /\ MissesEveryPair("a_id", "b_id")) =>
        LET key == TableKey(cur.table.schema, cur.table.name)
        IN  /\ pc # "catch" /\ error = ""
            /\ cur.attempt = 0
            /\ (\E e \in Range(summary) : TableKey(e.schema, e.table) = key) =>
                  /\ {<<storage[key][r]["a_id"], storage[key][r]["b_id"]>> :
                         r \in 1..Len(storage[key])}
                     = PoolValues("a_id") \X PoolValues("b_id")
                  /\ Len(storage[key]) = cur.target
                  /\ \A u \in 1..Len(cur.uniqueConstraints) :
                        cur.uniqueConstraints[u].pairQueue = <<>>

\* a chain of at most k foreign keys between distinct tables of the set
\* leads from t to u
RECURSIVE OutwardChain(_, _, _, _)
OutwardChain(set, t, u, k) ==
    /\ k > 0
    /\ \/ t # u /\ FkInto(t, u)
       \/ \E m \in set \ {t} : FkInto(t, m) /\ OutwardChain(set, m, u, k - 1)

\* the only foreign-key loops of the schema's seed set are self-references
OnlySelfLoops(schema) ==
    \A t \in SeedSet(schema) :
        ~\E m \in SeedSet(schema) \ {t} :
            /\ OutwardChain(SeedSet(schema), t, m, Cardinality(SeedSet(schema)))
            /\ OutwardChain(SeedSet(schema), m, t, Cardinality(SeedSet(schema)))

SelfReferencing(t) == FkInto(t, t)

\* C16: a schema whose only foreign-key loops are self-references is ordered
\* without a cycle error, and its self-referencing tables are seeded.
C16_SelfReferenceNoEdge ==
    \A k \in 1..Len(config.schemas) :
        (pc # "cli" /\ OnlySelfLoops(config.schemas[k])) =>
            /\ (schemaIdx = k /\ pc \in {"catch", "done"}) =>
                  ~StartsWith(error, "Cycle detected in table dependencies")
            /\ (pc = "done" /\ exitCode = 0) =>
                  \A t \in SeedSet(config.schemas[k]) :
                      SelfReferencing(t) =>
                          \E e \in Range(summary) : e.schema = t.schema /\ e.table = t.name

\* the pool keys queried during the run, in order
RECURSIVE QueriedKeys(_)
QueriedKeys(i) ==
    IF i > Len(events) THEN <<>>
    ELSE (IF events[i].kind = "load" THEN events[i].queried ELSE <<>>) \o QueriedKeys(i + 1)

\* the key (referenced schema, referenced table, referenced columns) as text
PoolKeyText(fk) ==
    fk.refSchema \o "." \o fk.refTable \o ":" \o Join(fk.refColumns, ",")

\* no key is queried twice, and a table that is being seeded holds, for
\* each of its foreign keys, the list the cache holds for the key
OneQueryPerKey ==
    /\ NoDup(QueriedKeys(1))
    /\ Range(QueriedKeys(1)) = {fkPoolCache[i].key : i \in 1..Len(fkPoolCache)}
    /\ NoDup([i \in 1..Len(fkPoolCache) |-> fkPoolCache[i].key])
    /\ (pc \in {"rows", "insert", "defaults"}) =>
          \A f \in 1..Len(cur.table.fks) :
              \E i \in 1..Len(fkPoolCache) :
                  /\ fkPoolCache[i].key = PoolKeyText(cur.table.fks[f])
                  /\ PoolOf(cur.fkPools, cur.table.fks[f]) = fkPoolCache[i].val

\* an entry of the cache stays as it was stored
CacheEntriesKept ==
    /\ Len(fkPoolCache') >= Len(fkPoolCache)
    /\ \A i \in 1..Len(fkPoolCache) : fkPoolCache'[i] = fkPoolCache[i]

\* C17: in a run each pool key is queried at most once, every foreign key
\* with the key uses the cached list, and a cached list never changes.
C17_PoolsQueriedOnce == []OneQueryPerKey /\ [][CacheEntriesKept]_vars

\* C17 witness: a table was served from the cache (it loaded its pools
\* without a query) after the parent had received rows, and the run
\* completed.
C17_Witness ==
    /\ pc = "done" /\ exitCode = 0 /\ ~config.dryRun
    /\ \E e \in 1..Len(events) :
          /\ events[e].kind = "load" /\ events[e].queried = <<>>
          /\ Len(TableAt(events[e].table).fks) > 0
    /\ \E i \in 1..Len(fkPoolCache) : Len(fkPoolCache[i].val) > 0

\* the table passes the include and exclude lists as the claim states them
PassesFilter(t) == \E u \in SeedSet(t.schema) : u = t

\* a list names the table by its bare name or by schema.table
ListedIn(list, t) == t.name \in Range(list) \/ TableKey(t.schema, t.name) \in Range(list)

\* C18: only tables that pass the include and exclude lists are seeded or
\* inserted into, and a run that completes has seeded every table of its
\* schemas that passes; a table matched by both lists is left out.
C18_FilterDecides ==
    pc \notin {"cli", "begin"} =>
        /\ \A e \in Range(summary) : PassesFilter(TableAt(TableKey(e.schema, e.table)))
        /\ \A i \in 1..Len(events) : PassesFilter(TableAt(events[i].table))
        /\ \A r \in 1..Len(rowLog) : PassesFilter(TableAt(rowLog[r].table))
        /\ \A t \in Range(orderedTables) :
              PassesFilter(DeclaredTable(Catalog(db), t.schema, t.name))
        /\ \A t \in Range(Catalog(db).tables) :
              (ListedIn(config.includeTables, t) /\ ListedIn(config.excludeTables, t)) =>
                  /\ ~\E e \in Range(summary) : e.schema = t.schema /\ e.table = t.name
                  /\ storage[TableKey(t.schema, t.name)] = InitialRows[TableKey(t.schema, t.name)]
        /\ (pc = "done" /\ exitCode = 0) =>
              \A k \in 1..Len(config.schemas) :
                  \A t \in SeedSet(config.schemas[k]) :
                      \E e \in Range(summary) : e.schema = t.schema /\ e.table = t.name

\* C18 witness: a run with both lists completed; it inserted into a table
\* that passes and left out a table that both lists match.
C18_Witness ==
    /\ pc = "done" /\ exitCode = 0 /\ ~config.dryRun
    /\ \E t \in Range(Catalog(db).tables) :
          /\ ListedIn(config.includeTables, t) /\ ListedIn(config.excludeTables, t)
          /\ Len(storage[TableKey(t.schema, t.name)]) < config.maxRecords
    /\ \E i \in 1..Len(events) : events[i].kind = "insert"

\* the overrides the configuration stores under a key
StoredUnder(key) ==
    {config.overrides[i].val : i \in {j \in 1..Len(config.overrides) :
                                        /\ config.overrides[j].key = key
                                        /\ config.overrides[j].val.defined}}

\* what the claim expects for a column: the keys from the most specific to
\* the least specific, and the override of the first that stores one
KeysBySpecificity(t, column) ==
    <<t.schema \o "." \o t.name \o "." \o column, t.name \o "." \o column, column>>

ExpectedOverride(t, column) ==
    LET keys == KeysBySpecificity(t, column)
        hits == {k \in 1..3 : StoredUnder(keys[k]) # {}}
    IN  IF hits = {} THEN NoOverride
        ELSE CHOOSE o \in StoredUnder(keys[CHOOSE k \in hits : \A h \in hits : k <= h]) : TRUE

\* C19: for every column resolveOverride returns the override of the most
\* specific key that stores one (schema.table.column, then table.column,
\* then the column name), or none; the values generated for a column come
\* from that override.
C19_MostSpecificOverride ==
    /\ \A t \in Range(Catalog(db).tables) :
          \A c \in 1..Len(t.columns) :
              resolveOverride(config.overrides, t.schema, t.name, t.columns[c].name)
                  = ExpectedOverride(t, t.columns[c].name)
    /\ \A r \in 1..Len(cur.produced) :
          \A i \in 1..Len(cur.insertColumns) :
              LET expected == ExpectedOverride(cur.table, cur.insertColumns[i].name)
              IN  (cur.produced[r].origins[i] = "generated" /\ Len(expected.values) > 0) =>
                      cur.produced[r].values[i] \in Range(expected.values)

\* C19 witness: a value was generated for a column that has an override
\* under each of the three keys.
C19_Witness ==
    /\ Len(cur.produced) > 0
    /\ \E i \in 1..Len(cur.insertColumns) :
          /\ \A k \in 1..3 :
                StoredUnder(KeysBySpecificity(cur.table, cur.insertColumns[i].name)[k]) # {}
          /\ cur.produced[1].origins[i] = "generated"

\* the column at position i of the table being seeded is generated (it is no
\* foreign-key column) and its override names a path that is no function
\* and gives no candidate values
InvalidOverrideAt(i) ==
    LET column   == cur.insertColumns[i].name
        override == ExpectedOverride(cur.table, column)
    IN  /\ column \notin FkColumns(cur.table)
        /\ override.defined /\ Len(override.values) = 0 /\ override.faker # ""
        /\ override.faker \notin FakerFunctions

\* the r-th outcome of buildRowValues asked for a value of column i: the
\* column loop reached it and did not put a null there
GenerationReached(r, i) ==
    /\ rowLog[r].table = TableKey(cur.table.schema, cur.table.name)
    /\ Len(rowLog[r].draws) >= i
    /\ rowLog[r].draws[i] # "null"

\* C20: the first generation of a value for a column whose override names
\* no function raises the invalid-override error: buildRowValues ends there
\* without a further attempt, returns no row, reserves no key, and the run
\* is aborted.
C20_InvalidOverrideAborts ==
    \A r \in 1..Len(rowLog) :
        \A i \in 1..Len(cur.insertColumns) :
            (InvalidOverrideAt(i) /\ GenerationReached(r, i)) =>
                /\ r = Len(rowLog)
                /\ Len(rowLog[r].draws) = i /\ Len(rowLog[r].values) = i - 1
                /\ rowLog[r].error = "Invalid faker override: "
                                     \o ExpectedOverride(cur.table, cur.insertColumns[i].name).faker
                /\ error = rowLog[r].error
                /\ pc \in {"catch", "done"}
                /\ pc = "done" => exitCode = 1 /\ storage = InitialRows /\ durable = InitialRows
                /\ cur.attempt = 0
                /\ Len(cur.produced) = Len(cur.batch)
                /\ Len(cur.produced) < r
                /\ \A u \in 1..Len(cur.uniqueConstraints) : cur.uniqueConstraints[u].set = {}
                /\ \A e \in Range(summary) : e.table # cur.table.name

\* C20 witness: a row of a table got a null in the column, the next row asked
\* for a value and the run ended with the invalid-override error.
C20_Witness ==
    /\ pc = "done" /\ exitCode = 1
    /\ Len(rowLog) > 1
    /\ \E i \in 1..Len(cur.insertColumns) :
          InvalidOverrideAt(i) /\ GenerationReached(Len(rowLog), i)
    /\ rowLog[Len(rowLog)].error = error

\* the kind of value a declared type requires
RequiredKind(column) ==
    CASE column.dataType = "ARRAY" -> "array"
      [] column.dataType \in {"integer", "bigint", "smallint", "numeric", "real",
                              "double precision"} -> "number"
      [] column.dataType = "boolean" -> "boolean"
      [] column.dataType = "jsonb" -> "object"
      [] column.dataType = "bytea" -> "buffer"
      [] OTHER -> "string"

\* the kinds of the elements an array type requires
RequiredElements(column) ==
    CASE column.udtName = "_int4" -> {ToString(i) : i \in 1..GenWidth}
      [] OTHER -> {"lorem" \o ToString(i) : i \in 1..GenWidth}

\* C21: without an override generateValue returns a value of the kind the
\* column's declared type requires, whatever the column is called.
C21_KindFollowsType ==
    (genOut.called /\ ~genIn.override.defined) =>
        /\ genOut.error = ""
        /\ genOut.value[1] = RequiredKind(genIn.column)
        /\ genIn.column.dataType = "ARRAY" =>
              /\ Len(genOut.value[2]) \in 1..3
              /\ Range(genOut.value[2]) \subseteq RequiredElements(genIn.column)

\* C22: the decimal generator's upper bound lies below 10^(p-s) for every
\* precision p and scale s with 0 <= s <= p.
C22_DecimalBound ==
    LET column == genIn.column
    IN  (genOut.called /\ column.dataType = "numeric" /\ column.numericPrecision # -1
         /\ column.numericScale <= column.numericPrecision) =>
            /\ DecimalMax(column) < Pow10(column.numericPrecision - column.numericScale)
            /\ genOut.value[1] = "number" =>
                  \E v \in 0..DecimalMax(column) :
                      /\ genOut.value = Num(v)
                      /\ v < Pow10(column.numericPrecision - column.numericScale)

\* the unique constraints that have a column and whose columns are all
\* insert columns
EligibleConstraints(table, insertColumns) ==
    SelectSeq(table.uniqueConstraints, LAMBDA constraint :
        /\ Len(constraint.columns) # 0
        /\ Range(constraint.columns) \subseteq Range(ColumnNames(insertColumns)))

\* seedTable is about to synthesize the table's first row
BeforeFirstRow == pc = "rows" /\ cur.i = 0 /\ cur.batch = <<>> /\ cur.attempt = 0

\* C23: when seedTable has built the trackers, there is one tracker per
\* unique constraint whose columns are all insert columns, in the
\* constraints' order, with the columns' positions in the insert-column list
\* as indices; before the first row is synthesized each tracker's set holds
\* the keys of the rows stored before.
C23_TrackerPerConstraint ==
    pc \in {"rows", "insert"} =>
        LET expected == EligibleConstraints(cur.table, cur.insertColumns)
            names    == ColumnNames(cur.insertColumns)
        IN  /\ Len(cur.uniqueConstraints) = Len(expected)
            /\ \A i \in 1..Len(expected) :
                  /\ cur.uniqueConstraints[i].name = expected[i].name
                  /\ cur.uniqueConstraints[i].indices =
                         [k \in 1..Len(expected[i].columns) |->
                             IndexOf(names, expected[i].columns[k])]
                  /\ BeforeFirstRow =>
                         cur.uniqueConstraints[i].set =
                             {buildUniqueKeyFromColumns(cur.before[r], expected[i].columns)
                              : r \in 1..Len(cur.before)} \ {NoKey}

\* a step in which buildRowValues makes one attempt
AttemptStep == pc = "rows" /\ Len(rowLog') = Len(rowLog) + 1

\* the attempt made by the step
Attempted == rowLog'[Len(rowLog')]

\* some key of the values is held by the set of its tracker
Conflicts(values, trackers) ==
    \E k \in 1..Len(trackers) :
        /\ buildUniqueKeyFromRow(values, trackers[k].indices) # NoKey
        /\ buildUniqueKeyFromRow(values, trackers[k].indices) \in trackers[k].set

\* the step hands the attempt's row to seedTable
Accepted == cur'.batch = Append(cur.batch, Attempted.values)

GaveUp == StartsWith(error, "Unable to generate unique values")

\* the text before the names in the error of a table
GaveUpPrefix(table) ==
    "Unable to generate unique values for " \o table.schema \o "." \o table.name
    \o ". Constraints: "

\* the attempts made for the row that was given up, the last 25 of the log
LastAttempts == {rowLog[r].values : r \in (Len(rowLog) - 24)..Len(rowLog)}

\* the trackers for which a key of one of the last attempts was in the set
ConflictingTrackers ==
    SelectSeq(cur.uniqueConstraints, LAMBDA tracker :
        \E values \in LastAttempts :
            /\ buildUniqueKeyFromRow(values, tracker.indices) # NoKey
            /\ buildUniqueKeyFromRow(values, tracker.indices) \in tracker.set)

SingleFks(table, column) == {f \in 1..Len(table.fks) : table.fks[f].columns = <<column>>}

\* the distinct non-null values in the pool of the column's single-column
\* foreign key
PoolDomain(table, fkPools, column) ==
    LET f    == CHOOSE g \in SingleFks(table, column) :
                    \A h \in SingleFks(table, column) : h <= g
        pool == PoolOf(fkPools, table.fks[f])
    IN  {pool[i][1] : i \in 1..Len(pool)} \ {NULL}

\* the tracker is one of two columns that are each a single-column foreign key
OverTwoForeignKeys(table, tracker) ==
    /\ Len(tracker.columns) = 2
    /\ \A c \in Range(tracker.columns) : SingleFks(table, c) # {}

Queued(tracker) == tracker.hasQueue /\ Len(tracker.pairQueue) > 0

\* the trackers with a pair left whose pair covers the column (0-based index)
QueuedOver(trackers, colIndex) ==
    {k \in 1..Len(trackers) : Queued(trackers[k]) /\ colIndex \in Range(trackers[k].indices)}

\* what the front pair of the tracker holds for the column
FrontValue(tracker, colIndex) ==
    tracker.pairQueue[1][IndexOf(tracker.indices, colIndex) + 1]

\* what the sampled tuples of the attempt hold for the column of a foreign key
SampledValue(table, fkAssignments, name) ==
    LET f == CHOOSE g \in 1..Len(table.fks) :
                 /\ name \in Range(table.fks[g].columns)
                 /\ \A h \in 1..Len(table.fks) :
                       name \in Range(table.fks[h].columns) => h <= g
    IN  IF fkAssignments[f] = NoTuple THEN NULL
        ELSE fkAssignments[f][IndexOf(table.fks[f].columns, name) + 1]

\* every queue with a pair left loses its front pair and no other queue changes
FrontsRemoved ==
    /\ Len(cur'.uniqueConstraints) = Len(cur.uniqueConstraints)
    /\ \A k \in 1..Len(cur.uniqueConstraints) :
          /\ cur'.uniqueConstraints[k].hasQueue = cur.uniqueConstraints[k].hasQueue
          /\ cur'.uniqueConstraints[k].pairQueue =
                 IF Queued(cur.uniqueConstraints[k])
                 THEN Tail(cur.uniqueConstraints[k].pairQueue)
                 ELSE cur.uniqueConstraints[k].pairQueue

HoldsNull(values, tracker) == \E i \in Range(tracker.indices) : values[i + 1] = NULL

\* the stored row holds null in a column of the tracker
StoredNull(row, tracker) == \E c \in Range(tracker.columns) : row[c] = NULL

FksOver(table, name) == {f \in 1..Len(table.fks) : name \in Range(table.fks[f].columns)}

\* the foreign key is the last of the table's foreign keys over the column
LastOver(table, f, name) == \A g \in FksOver(table, name) : g <= f

\* the foreign keys of the table being seeded whose pool is empty
EmptyPoolFks == {f \in 1..Len(cur.table.fks) : PoolOf(cur.fkPools, cur.table.fks[f]) = <<>>}

\* buildRowValues never raised its empty-pool error
NoEmptyPoolErrorInRow ==
    \A r \in 1..Len(rowLog) : ~StartsWith(rowLog[r].error, "Foreign key pool empty")

KeysOf(values, tracker) == {buildUniqueKeyFromRow(values, tracker.indices)} \ {NoKey}

C10_Original ==
    sortOut.called =>
        /\ sortOut.ok <=> SortAcyclic
        /\ ~sortOut.ok =>
              Range(sortOut.remaining) = {n \in Range(sortIn.nodes) : OnCycle(n)}

\* C10 amended: on a cyclic input the error lists, in input order, exactly
\* the tables that lie on a cycle or depend (directly or transitively) on a
\* table that does; an acyclic input never fails.
C10_SortCycleError ==
    sortOut.called =>
        /\ sortOut.ok <=> SortAcyclic
        /\ ~sortOut.ok =>
              sortOut.remaining = SelectSeq(sortIn.nodes, LAMBDA n : BehindCycle(n))

\* C10 witness: a failed sort that lists a table lying on no cycle and
\* leaves out a table that no cycle reaches.
C10_Witness ==
    /\ sortOut.called /\ ~sortOut.ok
    /\ \E n \in Range(sortOut.remaining) : ~OnCycle(n)
    /\ Len(sortOut.remaining) < Len(sortIn.nodes)

====
